---- MODULE Spec2Model ----
(***************************************************************************)
(* A model of Story Splitter AI: the Express server's in-memory story and  *)
(* epic stores and its Pusher re-triggers (server/index.js), the clients   *)
(* of the hosted channel service (usePusherCollaboration.js,               *)
(* WebSocketService.js, App.js) and the heuristic story analyst            *)
(* (agents/story-analyst.js).                                              *)
(*                                                                         *)
(* JavaScript objects are functions from field names to values, arrays are *)
(* sequences, and texts are strings, whose characters the String methods   *)
(* of the code (trim, includes, split, charCodeAt) are computed from.      *)
(***************************************************************************)
EXTENDS Integers, Sequences, FiniteSets, TLC

VARIABLES
  stories,      \* server: Map id -> story
  epics,        \* server: Map id -> epic
  now,          \* the clock, Date.now()
  env,          \* server: process.env (USE_MOCK_AI, CLAUDE_API_KEY)
  triggered,    \* server: the pusher.trigger calls made so far, in order
  req,          \* the last HTTP request the server handled
  resp,         \* and its response
  nreq,         \* the number of HTTP requests handled
  inbox,        \* channel service: per client, the events on their way to it
  presenceMain, \* channel service: the members of presence-main, as joined
  nextSocket,   \* channel service: the connections made so far
  hook,         \* per usePusherCollaboration client, the hook's state
  ws,           \* per WebSocketService client, the service's fields
  ntyping,      \* the typing signals sent so far
  app,          \* per App.js client, the state of its components
  analyst       \* the StoryAnalystAgent: its cache and the calls made

serverVars == <<stories, epics, now, env, triggered, req, resp, nreq>>

clientVars == <<presenceMain, nextSocket, hook, ws, ntyping, app, analyst>>

vars ==
  <<stories, epics, now, env, triggered, req, resp, nreq, inbox,
    presenceMain, nextSocket, hook, ws, ntyping, app, analyst>>

----------------------------------------------------------------------------
\* Bounds of the model.

\* HTTP requests the server handles in one behaviour.
MaxRequests == 3

\* Milliseconds the clock may advance.
MaxClock == 2

\* Connections the channel service accepts in one behaviour.
MaxSockets == 3

\* Typing signals the clients send in one behaviour.
MaxTyping == 2

\* Requests handled after which no App.js client starts to publish.
MaxAppRequests == 5

\* Calls of analyzeStory in one behaviour.
MaxCalls == 3

\* Epics a client's mapping board holds.
MaxBoard == 4

\* Calls of onError in one behaviour, and errors in a row after the retries
\* are used up.
MaxErrors == 2

----------------------------------------------------------------------------
\* JavaScript values.

\* null / undefined
Null == "null"

\* {}
EmptyObj == [f \in {} |-> Null]

\* { ...a, ...b }
Merge(a, b) ==
  [f \in DOMAIN a \cup DOMAIN b |-> IF f \in DOMAIN b THEN b[f] ELSE a[f]]

\* map.set(k, v) and map.delete(k)
MapSet(m, k, v) == [x \in DOMAIN m \cup {k} |-> IF x = k THEN v ELSE m[x]]

MapDelete(m, k) == [x \in DOMAIN m \ {k} |-> m[x]]

Range(s) == {s[i] : i \in 1..Len(s)}

\* array.map(f)
MapSeq(s, f(_)) == [i \in 1..Len(s) |-> f(s[i])]

\* The clients of the channel service: browsers running the hook
\* usePusherCollaboration, and browsers running WebSocketService.
Hooks == {"h1", "h2"}

WSs == {"w1"}

\* and browsers running client/src/App.js.
Apps == {"a1", "a2"}

Clients == Hooks \cup WSs \cup Apps

----------------------------------------------------------------------------
\* server/index.js: the stores.

SampleContent ==
  "As a user, I can log into the system so that I can access my personal dashboard."

InitialStories ==
  [k \in {"1", "main-story"} |->
     IF k = "1"
       THEN [id |-> "1",
             title |-> "User can log into the system",
             description |-> "Basic authentication functionality",
             content |-> SampleContent,
             parentStoryId |-> Null,
             epicId |-> "epic1",
             priority |-> "High",
             effort |-> "Small",
             storyPoints |-> 3,
             acceptanceCriteria |->
               <<"Valid credentials allow access",
                 "Invalid credentials show error">>,
             status |-> "published",
             version |-> 1,
             lastModified |-> 0]
       ELSE [id |-> "main-story",
             title |-> "Main Story",
             description |-> "The main story being edited",
             content |-> "",
             parentStoryId |-> Null,
             epicId |-> Null,
             priority |-> "Medium",
             effort |-> "Medium",
             storyPoints |-> 0,
             acceptanceCriteria |-> <<>>,
             status |-> "draft",
             version |-> 1,
             lastModified |-> 0]]

InitialEpics ==
  [k \in {"epic1", "epic2"} |->
     IF k = "epic1"
       THEN [id |-> "epic1", title |-> "User Management",
             description |-> "All user-related functionality", order |-> 1]
       ELSE [id |-> "epic2", title |-> "Product Discovery",
             description |-> "Search and browse products", order |-> 2]]

\* The configurations the server may be started with, and the one the README's
\* .env gives (mock mode, no API key).
Envs ==
  [USE_MOCK_AI : {"true", "false"}, CLAUDE_API_KEY : {Null, "sk-key"}]

ReadmeEnv == [USE_MOCK_AI |-> "true", CLAUDE_API_KEY |-> Null]

\* The user who made a request when its body names none.
SystemUser == [id |-> "system", name |-> "System"]

\* req.body.user || { id: 'system', name: 'System' }
BodyUser(body) == IF "user" \in DOMAIN body THEN body.user ELSE SystemUser

----------------------------------------------------------------------------
\* The hosted channel service: an event triggered on a channel is queued for
\* every client subscribed to that channel at that moment, and reaches each
\* client in the order it was queued.

\* client/src/hooks/usePusherCollaboration.js: the hook's state on mount.
HookInit ==
  [mounted |-> FALSE,         \* the component using the hook is mounted
   pusher |-> FALSE,          \* the state `pusher` holds the client
   isConnected |-> FALSE,
   socketId |-> Null,         \* pusher.connection.socket_id
   connectedUsers |-> <<>>,
   typingUsers |-> {},        \* the keys of the Map typingUsers
   channels |-> {},           \* the keys of channelsRef.current
   storyBound |-> {},         \* channels with the story callback bound
   typingBound |-> {},        \* channels with handleTyping bound
   typingEffectRan |-> FALSE, \* the client-typing effect has run
   clearTimers |-> <<>>,      \* the pending 2 s timers, by the user to clear
   updates |-> <<>>]          \* the calls of the story callback, in order

\* localStorage's userId, one per browser.
HookUserId(h) == "user-" \o h

\* client/src/services/WebSocketService.js: the constructor.
WsInit ==
  [pusher |-> FALSE,
   channel |-> Null,          \* this.channel.name
   callbacks |-> {},          \* the keys of this.callbacks
   retryCount |-> 0,
   reconnectTimeout |-> 0,    \* the id setTimeout returned; 0 for null
   timers |-> {},             \* the browser: the ids of the pending timers
   connected |-> FALSE,       \* pusher.connection.state is 'connected'
   streak |-> 0,              \* the errors since the last 'connected',
                              \* reconnect() or disconnect()
   errors |-> <<>>,           \* the calls of onError, in order
   updates |-> <<>>]          \* the calls of onStoryUpdate, in order

PresenceMain == "presence-main"

\* The channel App.js gives its usePusherCollaboration.
StoryCollaboration == "story-collaboration"

\* channelName = `private-story-${storyId}` (the hook)
HookStoryChannel(storyId) == "private-story-" \o storyId

\* channelName = `presence-story-${storyId}` (WebSocketService)
WsStoryChannel(storyId) == "presence-story-" \o storyId

\* A subscription made before the connection is up takes effect with it.
Subscribed(c, channel) ==
  CASE c \in Hooks -> /\ hook[c].isConnected
                      /\ channel \in hook[c].channels \cup {PresenceMain}
    [] c \in WSs -> ws[c].channel = channel
    [] c \in Apps -> app[c].isConnected /\ channel = StoryCollaboration

Publish(ev, boxes) ==
  [c \in Clients |->
     IF Subscribed(c, ev.channel) THEN Append(boxes[c], ev) ELSE boxes[c]]

\* A client event reaches every subscriber but its sender.
PublishFrom(sender, ev, boxes) ==
  [c \in Clients |->
     IF c # sender /\ Subscribed(c, ev.channel)
       THEN Append(boxes[c], ev)
       ELSE boxes[c]]

\* server/index.js, POST /api/pusher/auth, presence branch: the member the
\* channel service is told to register. (A socket id of the model has at
\* most 8 characters, so socketId.substring(0, 8) is the socket id.)
PresenceData(socketId, body) ==
  [user_id |-> socketId,
   user_info |->
     [id |-> IF "user_id" \in DOMAIN body
               THEN body.user_id ELSE "user-" \o socketId,
      name |-> IF "user_name" \in DOMAIN body
                 THEN body.user_name ELSE "User",
      color |-> IF "user_color" \in DOMAIN body
                  THEN body.user_color ELSE "#",
      avatar |-> IF "user_avatar" \in DOMAIN body
                   THEN body.user_avatar ELSE "avatar",
      isOnline |-> TRUE]]

\* The hook's auth params.
HookAuthParams(h) ==
  [user_id |-> HookUserId(h), user_name |-> "You",
   user_avatar |-> "avatar", user_color |-> "#3B82F6"]

\* pusher-js hands a member to the handlers as { id: user_id, info: user_info }.
Member(presenceData) ==
  [id |-> presenceData.user_id, info |-> presenceData.user_info]

\* { id: member.id, ...member.info }
UserEntry(member) == Merge([id |-> member.id], member.info)

----------------------------------------------------------------------------
\* client/src/hooks/usePusherCollaboration.js

\* The first effect: new Pusher(...), subscribe('presence-main'), setPusher.
HookMount(h) ==
  /\ ~hook[h].mounted
  /\ hook' = [hook EXCEPT ![h] = [HookInit EXCEPT !.mounted = TRUE,
                                                  !.pusher = TRUE]]
  /\ UNCHANGED <<serverVars,
               inbox, presenceMain, nextSocket, ws, ntyping, app, analyst>>

\* The connection is made: 'connected' is handled, the subscription to
\* presence-main is authorised by /api/pusher/auth and succeeds, and the
\* members already there are told of the new one. The effects of the render
\* that setPusher caused have run by then: they need no network.
HookConnected(h) ==
  /\ hook[h].mounted
  /\ hook[h].typingEffectRan
  /\ ~hook[h].isConnected
  /\ nextSocket < MaxSockets
  /\ LET sid == "sock-" \o ToString(nextSocket + 1)
         me == Member(PresenceData(sid, HookAuthParams(h)))
         members == Append(presenceMain, me)
     IN  /\ nextSocket' = nextSocket + 1
         /\ presenceMain' = members
         /\ hook' = [hook EXCEPT ![h].isConnected = TRUE, ![h].socketId = sid]
         /\ inbox' =
              [c \in Clients |->
                 IF c = h
                   THEN Append(inbox[c],
                               [channel |-> PresenceMain,
                                event |-> "pusher:subscription_succeeded",
                                data |-> members])
                 ELSE IF Subscribed(c, PresenceMain)
                   THEN Append(inbox[c],
                               [channel |-> PresenceMain,
                                event |-> "pusher:member_added",
                                data |-> me])
                 ELSE inbox[c]]
  /\ UNCHANGED <<serverVars, ws, ntyping, app, analyst>>

\* The first effect's cleanup: every channel is unbound and unsubscribed and
\* the client disconnects; the channel service tells the other members.
HookUnmount(h) ==
  /\ hook[h].mounted
  /\ LET gone == SelectSeq(presenceMain,
                           LAMBDA m : m.id = hook[h].socketId)
     IN  /\ presenceMain' =
              SelectSeq(presenceMain, LAMBDA m : m.id # hook[h].socketId)
         /\ inbox' =
              [c \in Clients |->
                 IF c = h THEN <<>>
                 ELSE IF gone # <<>> /\ Subscribed(c, PresenceMain)
                   THEN Append(inbox[c],
                               [channel |-> PresenceMain,
                                event |-> "pusher:member_removed",
                                data |-> gone[1]])
                 ELSE inbox[c]]
  /\ hook' = [hook EXCEPT ![h] = HookInit]
  /\ UNCHANGED <<serverVars, nextSocket, ws, ntyping, app, analyst>>

\* subscribeToStory(storyId, callback), called once the state `pusher` is set
\* (before that it does nothing).
SubscribeToStory(h, storyId) ==
  /\ hook[h].pusher
  /\ LET channelName == HookStoryChannel(storyId)
     IN  hook' = [hook EXCEPT
                    ![h].channels = @ \cup {channelName},
                    ![h].storyBound = @ \cup {channelName}]
  /\ UNCHANGED <<serverVars,
               inbox, presenceMain, nextSocket, ws, ntyping, app, analyst>>

\* The function subscribeToStory returned: the callback is unbound.
UnsubscribeFromStory(h, storyId) ==
  /\ HookStoryChannel(storyId) \in hook[h].storyBound
  /\ hook' = [hook EXCEPT ![h].storyBound = @ \ {HookStoryChannel(storyId)}]
  /\ UNCHANGED <<serverVars,
               inbox, presenceMain, nextSocket, ws, ntyping, app, analyst>>

\* The client-typing effect, run once `pusher` is set: handleTyping is bound
\* on the channels channelsRef holds at that moment.
TypingEffect(h) ==
  /\ hook[h].pusher
  /\ ~hook[h].typingEffectRan
  /\ hook' = [hook EXCEPT ![h].typingEffectRan = TRUE,
                          ![h].typingBound = hook[h].channels]
  /\ UNCHANGED <<serverVars,
               inbox, presenceMain, nextSocket, ws, ntyping, app, analyst>>

TypingEvent(h, storyId, isTyping) ==
  [channel |-> HookStoryChannel(storyId),
   event |-> "client-typing",
   data |-> [userId |-> HookUserId(h), isTyping |-> isTyping]]

\* sendTypingIndicator(storyId, isTyping)
SendTypingIndicator(h, storyId, isTyping) ==
  /\ hook[h].pusher
  /\ hook[h].isConnected
  /\ HookStoryChannel(storyId) \in hook[h].channels
  /\ ntyping < MaxTyping
  /\ ntyping' = ntyping + 1
  /\ inbox' = PublishFrom(h, TypingEvent(h, storyId, isTyping), inbox)
  /\ hook' = [hook EXCEPT
                ![h].typingUsers =
                  IF isTyping THEN @ \cup {HookUserId(h)}
                              ELSE @ \ {HookUserId(h)}]
  /\ UNCHANGED <<serverVars, presenceMain, nextSocket, ws, app, analyst>>

\* handleTyping(data)
HandleTyping(h, state, data) ==
  [state EXCEPT
     !.typingUsers =
       IF data.isTyping /\ data.userId # HookUserId(h)
         THEN @ \cup {data.userId}
         ELSE @ \ {data.userId},
     !.clearTimers =
       IF data.isTyping THEN Append(@, data.userId) ELSE @]

\* What the hook's handlers make of one event.
HookHandle(h, state, ev) ==
  CASE ev.channel = PresenceMain /\ ev.event = "pusher:subscription_succeeded"
         -> [state EXCEPT
               !.connectedUsers =
                 [i \in 1..Len(ev.data) |-> UserEntry(ev.data[i])]]
    [] ev.channel = PresenceMain /\ ev.event = "pusher:member_added"
         -> [state EXCEPT
               !.connectedUsers = Append(@, UserEntry(ev.data))]
    [] ev.channel = PresenceMain /\ ev.event = "pusher:member_removed"
         -> [state EXCEPT
               !.connectedUsers =
                 SelectSeq(@, LAMBDA u : u.id # ev.data.id)]
    [] /\ ev.event \in {"story-updated", "story-published"}
       /\ ev.channel \in state.storyBound
         -> [state EXCEPT !.updates = Append(@, ev.data)]
    [] ev.event = "client-typing" /\ ev.channel \in state.typingBound
         -> HandleTyping(h, state, ev.data)
    [] OTHER -> state

\* The next event reaches the hook client.
HookDeliver(h) ==
  /\ hook[h].mounted
  /\ inbox[h] # <<>>
  /\ hook' = [hook EXCEPT ![h] = HookHandle(h, hook[h], Head(inbox[h]))]
  /\ inbox' = [inbox EXCEPT ![h] = Tail(@)]
  /\ UNCHANGED <<serverVars,
               presenceMain, nextSocket, ws, ntyping, app, analyst>>

\* A 2 s timer set by handleTyping fires.
TypingClear(h) ==
  /\ hook[h].clearTimers # <<>>
  /\ hook' = [hook EXCEPT
                ![h].typingUsers = @ \ {Head(hook[h].clearTimers)},
                ![h].clearTimers = Tail(@)]
  /\ UNCHANGED <<serverVars,
               inbox, presenceMain, nextSocket, ws, ntyping, app, analyst>>

----------------------------------------------------------------------------
\* client/src/services/WebSocketService.js

\* The callbacks a caller may pass to connect().
CallbackSets == { {"onStoryUpdate", "onError"}, {"onConnect"} }

\* this.maxRetries
maxRetries == 3

\* connect(storyId, callbacks), on a service that is not connected.
WsConnect(w, storyId, callbacks) ==
  /\ ~ws[w].pusher
  /\ nextSocket < MaxSockets
  /\ nextSocket' = nextSocket + 1
  /\ ws' = [ws EXCEPT ![w].pusher = TRUE,
                      ![w].channel = WsStoryChannel(storyId),
                      ![w].callbacks = callbacks]
  /\ UNCHANGED <<serverVars, inbox, presenceMain, hook, ntyping, app, analyst>>

\* connection 'connected'
WsConnected(w) ==
  /\ ws[w].pusher
  /\ ~ws[w].connected
  /\ ws' = [ws EXCEPT ![w].connected = TRUE,
                      ![w].retryCount = 0,
                      ![w].streak = 0]
  /\ UNCHANGED <<serverVars, inbox, presenceMain, nextSocket, hook, ntyping,
                 app, analyst>>

\* setTimeout returns an id that no pending timer has.
TimerId(timers) == CHOOSE id \in 1..(Cardinality(timers) + 1) : id \notin timers

\* handleConnectionError() if the service retried without limit.
handleConnectionErrorUnlimited(state) ==
  LET id == TimerId(state.timers)
  IN  [state EXCEPT !.retryCount = @ + 1,
                    !.timers = (@ \ {state.reconnectTimeout}) \cup {id},
                    !.reconnectTimeout = id]

\* handleConnectionError()
handleConnectionError(state) ==
  IF state.retryCount < maxRetries
    THEN LET id == TimerId(state.timers)
         IN  [state EXCEPT
                !.retryCount = @ + 1,
                !.timers = (@ \ {state.reconnectTimeout}) \cup {id},
                !.reconnectTimeout = id]
    ELSE IF "onError" \in state.callbacks
           THEN [state EXCEPT
                   !.errors =
                     Append(@, "Connection failed after maximum retries")]
           ELSE state

\* connect(storyId, callbacks) when new Pusher(...) throws: the callbacks are
\* stored and the catch block calls handleConnectionError().
WsConnectFails(w, callbacks) ==
  /\ ~ws[w].pusher
  /\ ws[w].streak < maxRetries + MaxErrors
  /\ Len(ws[w].errors) < MaxErrors
  /\ ws' = [ws EXCEPT
              ![w] = [handleConnectionError(
                        [ws[w] EXCEPT !.callbacks = callbacks])
                      EXCEPT !.streak = @ + 1]]
  /\ UNCHANGED <<serverVars, inbox, presenceMain, nextSocket, hook, ntyping,
                 app, analyst>>

\* connection 'error' (the connection is lost with it) or the channel's
\* 'pusher:subscription_error': both handlers call handleConnectionError().
WsError(w, kind) ==
  /\ ws[w].pusher
  /\ ws[w].streak < maxRetries + MaxErrors
  /\ Len(ws[w].errors) < MaxErrors
  /\ ws' = [ws EXCEPT
              ![w] = [handleConnectionError(ws[w]) EXCEPT
                        !.streak = @ + 1,
                        !.connected = IF kind = "connection"
                                        THEN FALSE ELSE @]]
  /\ UNCHANGED <<serverVars, inbox, presenceMain, nextSocket, hook, ntyping,
                 app, analyst>>

\* setupEventListeners: what the bound handlers make of one event.
WsHandle(state, ev) ==
  IF ev.event = "story-updated" /\ "onStoryUpdate" \in state.callbacks
    THEN [state EXCEPT !.updates = Append(@, ev.data)]
    ELSE state

\* The next event reaches the service.
WsDeliver(w) ==
  /\ ws[w].pusher
  /\ inbox[w] # <<>>
  /\ ws' = [ws EXCEPT ![w] = WsHandle(ws[w], Head(inbox[w]))]
  /\ inbox' = [inbox EXCEPT ![w] = Tail(@)]
  /\ UNCHANGED <<serverVars,
               presenceMain, nextSocket, hook, ntyping, app, analyst>>

\* disconnect(): the fields it leaves.
disconnect(state) ==
  [state EXCEPT !.timers = @ \ {state.reconnectTimeout},
                !.reconnectTimeout = 0,
                !.channel = Null,
                !.pusher = FALSE,
                !.connected = FALSE,
                !.callbacks = {},
                !.retryCount = 0,
                !.streak = 0]

\* disconnect(), called by the user of the service.
WsDisconnect(w) ==
  /\ ws[w].pusher \/ ws[w].reconnectTimeout # 0
  /\ ws' = [ws EXCEPT ![w] = disconnect(ws[w])]
  /\ inbox' = [inbox EXCEPT ![w] = <<>>]
  /\ UNCHANGED <<serverVars,
               presenceMain, nextSocket, hook, ntyping, app, analyst>>

\* A pending timer fires and calls reconnect(): disconnect(), and then, if
\* this.channel is still set, connect() to the channel's story with the
\* callbacks this.callbacks still holds.
WsReconnect(w) ==
  /\ \E id \in ws[w].timers :
       LET state == disconnect([ws[w] EXCEPT !.timers = @ \ {id}])
       IN  IF state.channel # Null
             THEN /\ ws' = [ws EXCEPT ![w] = [state EXCEPT !.pusher = TRUE]]
                  /\ nextSocket' = nextSocket + 1
             ELSE /\ ws' = [ws EXCEPT ![w] = state]
                  /\ UNCHANGED nextSocket
  /\ inbox' = [inbox EXCEPT ![w] = <<>>]
  /\ UNCHANGED <<serverVars, presenceMain, hook, ntyping, app, analyst>>

----------------------------------------------------------------------------
\* server/index.js: the routes.

\* The request bodies tried.
Ann == [id |-> "user-ann", name |-> "Ann"]

PutBodies ==
  { [content |-> "a"],
    [content |-> "b", user |-> Ann],
    [id |-> "other", version |-> 7, status |-> "in-review"] }

PostBodies ==
  { [title |-> "New story"],
    [id |-> "main-story", title |-> "Posted over"] }

EpicBodies ==
  { [title |-> "Renamed"],
    [id |-> "epic2", order |-> 5] }

\* An id no record ever has.
UnknownId == "nope"

\* The ids requests are made on: every stored id but the sample records "1"
\* and "epic2", which stay in the stores as bystanders, and an unknown one.
RequestIds(store) == (DOMAIN store \ {"1", "epic2"}) \cup {UnknownId}

\* A request made to the server from outside the model's clients.
CanRequest == nreq < MaxRequests

\* Every route counts the request and records it with its response.
Handled(route, id, body, status, answer) ==
  /\ nreq' = nreq + 1
  /\ req' = [route |-> route, id |-> id, body |-> body]
  /\ resp' = [status |-> status, body |-> answer]

\* The record a PUT would store if the stored fields won over the body's.
UpdatedStoryBodyLoses(story, body, id, t) ==
  Merge(Merge(body, story),
        [id |-> id, lastModified |-> t, version |-> story.version + 1])

\* The record a PUT would store if the body's id won over the path's.
UpdatedStoryBodyId(story, body, id, t) ==
  Merge(Merge(story, [id |-> id]),
        Merge(body, [lastModified |-> t, version |-> story.version + 1]))

\* PUT /api/stories/:id, the record it stores
UpdatedStory(story, body, id, t) ==
  Merge(Merge(story, body),
        [id |-> id,
         lastModified |-> t,
         version |->
           (IF "version" \in DOMAIN story THEN story.version ELSE 0) + 1])

StoryUpdatedEvent(id, updatedStory, body, t) ==
  [channel |-> "presence-story-" \o id,
   event |-> "story-updated",
   data |-> [storyId |-> id, changes |-> updatedStory,
             user |-> BodyUser(body), timestamp |-> t]]

PutStory(id, body) ==
  /\ IF id \notin DOMAIN stories
       THEN /\ Handled("PUT /api/stories/:id", id, body, 404,
                       [error |-> "Story not found"])
            /\ UNCHANGED <<stories, triggered, inbox>>
       ELSE LET updatedStory == UpdatedStory(stories[id], body, id, now)
                ev == StoryUpdatedEvent(id, updatedStory, body, now)
            IN  /\ stories' = MapSet(stories, id, updatedStory)
                /\ triggered' = Append(triggered, ev)
                /\ inbox' = Publish(ev, inbox)
                /\ Handled("PUT /api/stories/:id", id, body, 200, updatedStory)
  /\ UNCHANGED <<epics, now, env>>

\* POST /api/stories/:id/publish
PublishedStory(story, t) ==
  Merge(story, [status |-> "published", publishedAt |-> t, lastModified |-> t])

StoryPublishedEvent(id, body, t) ==
  [channel |-> "presence-story-" \o id,
   event |-> "story-published",
   data |-> [storyId |-> id, user |-> BodyUser(body), timestamp |-> t]]

PublishStory(id, body) ==
  /\ IF id \notin DOMAIN stories
       THEN /\ Handled("POST /api/stories/:id/publish", id, body, 404,
                       [error |-> "Story not found"])
            /\ UNCHANGED <<stories, triggered, inbox>>
       ELSE LET publishedStory == PublishedStory(stories[id], now)
                ev == StoryPublishedEvent(id, body, now)
            IN  /\ stories' = MapSet(stories, id, publishedStory)
                /\ triggered' = Append(triggered, ev)
                /\ inbox' = Publish(ev, inbox)
                /\ Handled("POST /api/stories/:id/publish", id, body, 200,
                           publishedStory)
  /\ UNCHANGED <<epics, now, env>>

\* POST /api/stories
CreatedStory(body, t) ==
  Merge(Merge([id |-> "story-" \o ToString(t), parentStoryId |-> Null], body),
        [createdAt |-> t, lastModified |-> t, version |-> 1])

PostStory(body) ==
  LET story == CreatedStory(body, now)
  IN  /\ stories' = MapSet(stories, story.id, story)
      /\ Handled("POST /api/stories", story.id, body, 201, story)
      /\ UNCHANGED <<epics, now, env, triggered, inbox>>

\* DELETE /api/stories/:id
DeleteStory(id) ==
  /\ IF id \notin DOMAIN stories
       THEN /\ Handled("DELETE /api/stories/:id", id, EmptyObj, 404,
                       [error |-> "Story not found"])
            /\ UNCHANGED stories
       ELSE /\ stories' = MapDelete(stories, id)
            /\ Handled("DELETE /api/stories/:id", id, EmptyObj, 204, EmptyObj)
  /\ UNCHANGED <<epics, now, env, triggered, inbox>>

\* PUT /api/epics/:id
UpdatedEpic(epic, body, id, t) ==
  Merge(Merge(epic, body), [id |-> id, lastModified |-> t])

PutEpic(id, body) ==
  /\ IF id \notin DOMAIN epics
       THEN /\ Handled("PUT /api/epics/:id", id, body, 404,
                       [error |-> "Epic not found"])
            /\ UNCHANGED epics
       ELSE LET updatedEpic == UpdatedEpic(epics[id], body, id, now)
            IN  /\ epics' = MapSet(epics, id, updatedEpic)
                /\ Handled("PUT /api/epics/:id", id, body, 200, updatedEpic)
  /\ UNCHANGED <<stories, now, env, triggered, inbox>>

\* POST /api/epics
CreatedEpic(body, t) ==
  Merge(Merge([id |-> "epic-" \o ToString(t)], body),
        [createdAt |-> t, lastModified |-> t])

PostEpic(body) ==
  LET epic == CreatedEpic(body, now)
  IN  /\ epics' = MapSet(epics, epic.id, epic)
      /\ Handled("POST /api/epics", epic.id, body, 201, epic)
      /\ UNCHANGED <<stories, now, env, triggered, inbox>>

\* DELETE /api/epics/:id
DeleteEpic(id) ==
  /\ IF id \notin DOMAIN epics
       THEN /\ Handled("DELETE /api/epics/:id", id, EmptyObj, 404,
                       [error |-> "Epic not found"])
            /\ UNCHANGED epics
       ELSE /\ epics' = MapDelete(epics, id)
            /\ Handled("DELETE /api/epics/:id", id, EmptyObj, 204, EmptyObj)
  /\ UNCHANGED <<stories, now, env, triggered, inbox>>

\* POST /api/pusher/trigger
TriggerBodies ==
  { [channel |-> StoryCollaboration, event |-> "story-updated",
     data |-> [storyId |-> "main-story", changes |-> [content |-> "a"],
               user |-> Ann, timestamp |-> 0]],
    [channel |-> StoryCollaboration, event |-> "story-updated"] }

TriggerRoute(body) ==
  /\ IF {"channel", "event", "data"} \subseteq DOMAIN body
       THEN LET ev == [channel |-> body.channel, event |-> body.event,
                       data |-> body.data]
            IN  /\ triggered' = Append(triggered, ev)
                /\ inbox' = Publish(ev, inbox)
                /\ Handled("POST /api/pusher/trigger", Null, body, 200,
                           [success |-> TRUE])
       ELSE /\ Handled("POST /api/pusher/trigger", Null, body, 400,
                       [error |-> "Missing required fields"])
            /\ UNCHANGED <<triggered, inbox>>
  /\ UNCHANGED <<stories, epics, now, env>>

\* Time passes.
Tick ==
  /\ now < MaxClock
  /\ now' = now + 1
  /\ UNCHANGED <<stories, epics, env, triggered, req, resp, nreq, inbox>>
  /\ UNCHANGED clientVars

----------------------------------------------------------------------------
\* server/index.js: POST /api/agents/:agentType.

\* The keys of mockResponses, and the keys any object literal inherits.
MockKeys == {"analyze", "split", "coach", "review"}

ObjectPrototypeKeys ==
  {"constructor", "toString", "valueOf", "hasOwnProperty", "__proto__"}

AgentTypes == MockKeys \cup {"summarize", "constructor"}

AgentBodies ==
  { [story |-> [title |-> "Login", content |-> "a"]],
    [story |-> [content |-> "a"]],
    [context |-> "board"] }

\* const { story } = req.body; story.title throws when the body has no story.
StoryMissing(body) == "story" \notin DOMAIN body

\* story.title || 'your story'
TitleOrDefault(body) ==
  IF StoryMissing(body) \/ "title" \notin DOMAIN body.story
       \/ body.story.title = ""
    THEN "your story"
    ELSE body.story.title

MockEnvelope(t, text, metadata) ==
  [id |-> "msg-" \o ToString(t),
   object |-> "analysis",
   created |-> t \div 1000,
   model |-> "claude-3-mock",
   choices |-> <<[index |-> 0,
                  message |-> [role |-> "assistant", content |-> text,
                               function_call |-> Null],
                  finish_reason |-> "stop"]>>,
   usage |-> [prompt_tokens |-> 100, completion_tokens |-> 150,
              total_tokens |-> 250],
   metadata |-> metadata]

InvestCriteria ==
  [Independent |-> TRUE, Negotiable |-> TRUE, Valuable |-> TRUE,
   Estimable |-> FALSE, Small |-> TRUE, Testable |-> FALSE]

MockResponses(title, t) ==
  [k \in MockKeys |->
     CASE k = "analyze" ->
            MockEnvelope(t, <<"Analysis complete for", title>>,
              [agent |-> "Story Analyst", suggestions |-> 3,
               criteria |-> InvestCriteria, score |-> 67])
       [] k = "split" ->
            MockEnvelope(t, <<"I've analyzed your story">>,
              [agent |-> "Splitting Expert",
               splits |-> <<"Basic functionality", "Enhanced features",
                            "Advanced options">>])
       [] k = "coach" ->
            MockEnvelope(t, <<"Here are some tips">>,
              [agent |-> "Coaching Assistant", tips |-> 5])
       [] OTHER ->
            MockEnvelope(t, <<"Quality review complete">>,
              [agent |-> "Quality Reviewer", criteria |-> InvestCriteria,
               score |-> 67, suggestions |-> 3])]

\* mockResponses[agentType] || mockResponses.analyze: an own key gives its
\* response, an inherited key gives a value of Object.prototype (truthy, with
\* no metadata), any other key gives the analyze response.
MockLookup(agentType, title, t) ==
  IF agentType \in MockKeys THEN MockResponses(title, t)[agentType]
  ELSE IF agentType \in ObjectPrototypeKeys THEN [inherited |-> agentType]
  ELSE MockResponses(title, t)["analyze"]

AgentFailed == [error |-> "AI analysis failed"]

\* The status and body the route answers with.
AgentAnswer(agentType, body, e, t) ==
  LET useMockAI == e.USE_MOCK_AI = "true"
  IN  IF ~useMockAI /\ e.CLAUDE_API_KEY = Null
        THEN <<503, [error |-> "AI service not configured"]>>
      ELSE IF useMockAI
        THEN IF StoryMissing(body)
               THEN <<500, AgentFailed>>
             ELSE LET response ==
                        MockLookup(agentType, TitleOrDefault(body), t)
                  IN  IF "metadata" \notin DOMAIN response
                        THEN <<500, AgentFailed>>
                        ELSE <<200, response>>
      ELSE <<501, [error |-> "Real AI integration not yet implemented"]>>

AgentRoute(agentType, body) ==
  LET answer == AgentAnswer(agentType, body, env, now)
  IN  /\ Handled("POST /api/agents/:agentType", agentType, body,
                 answer[1], answer[2])
      /\ UNCHANGED <<stories, epics, now, env, triggered, inbox>>

----------------------------------------------------------------------------
\* client/src/App.js: StoryEditorApp with its own usePusherCollaboration
\* and its StoryEditor. A request the client makes is answered by the server
\* within the step that makes it.

\* What a user types into the editor.
Texts == {"", "a", "b"}

Whitespace == {" "}

RECURSIVE TrimStart(_)
TrimStart(s) ==
  IF Len(s) > 0 /\ SubSeq(s, 1, 1) \in Whitespace
    THEN TrimStart(SubSeq(s, 2, Len(s)))
    ELSE s

RECURSIVE TrimEnd(_)
TrimEnd(s) ==
  IF Len(s) > 0 /\ SubSeq(s, Len(s), Len(s)) \in Whitespace
    THEN TrimEnd(SubSeq(s, 1, Len(s) - 1))
    ELSE s

\* String.prototype.trim
Trim(s) == TrimEnd(TrimStart(s))

\* useState([...]): the stories and epics the board starts with.
BoardStories ==
  << [id |-> "1",
      title |-> "User can log into the system",
      description |-> "Basic authentication functionality",
      content |-> SampleContent,
      epicId |-> "epic1",
      priority |-> "High",
      effort |-> "Small",
      storyPoints |-> 3,
      acceptanceCriteria |->
        <<"Valid credentials allow access", "Invalid credentials show error">>,
      status |-> "published"],
     [id |-> "2",
      title |-> "User can view their profile",
      description |-> "Display user information and settings",
      content |->
        "As a user, I can view my profile so that I can see my current information and settings.",
      epicId |-> "epic1",
      priority |-> "Medium",
      effort |-> "Medium",
      storyPoints |-> 5,
      acceptanceCriteria |->
        <<"Profile shows current information", "Settings are editable">>,
      status |-> "draft"],
     [id |-> "3",
      title |-> "User can search for products",
      description |-> "Product search with filters",
      content |->
        "As a customer, I can search for products so that I can find items I want to purchase.",
      epicId |-> "epic2",
      priority |-> "High",
      effort |-> "Large",
      storyPoints |-> 8,
      acceptanceCriteria |->
        <<"Search returns relevant results", "Filters work correctly">>,
      status |-> "draft"] >>

BoardEpics ==
  << [id |-> "epic1", title |-> "User Management",
      description |-> "All user-related functionality", order |-> 1],
     [id |-> "epic2", title |-> "Product Discovery",
      description |-> "Search and browse products", order |-> 2] >>

AppInit ==
  [pusher |-> FALSE,           \* pusher, channel and currentUser are set
   isConnected |-> FALSE,
   connectedUsers |-> <<>>,
   typingUsers |-> {},
   story |-> "",               \* StoryEditor: the text in the editor
   isDirty |-> FALSE,
   lastSavedVersion |-> "",
   storyTimeout |-> Null,      \* window.storyTimeout: the text it will send
   typingTimeout |-> FALSE,    \* typingTimeoutRef.current is pending
   currentStory |-> "",        \* StoryEditorApp
   publishedStory |-> "",
   isPublishing |-> FALSE,
   publishing |-> "",          \* handlePublish: the currentStory it holds
   publishResult |-> 0,        \* handlePublish: the status of its request
   updates |-> <<>>,           \* the collaborative-story-update events
   stories |-> BoardStories,   \* StoryEditorApp: the story mapping board
   epics |-> BoardEpics]

\* The user the mount effect makes up: Math.random gives each client its own.
AppUser(a) ==
  [id |-> "user-" \o a, name |-> "You", color |-> "#3B82F6",
   avatar |-> "avatar"]

\* The mount effect of usePusherCollaboration(channelName).
AppMount(a) ==
  /\ ~app[a].pusher
  /\ app' = [app EXCEPT ![a].pusher = TRUE]
  /\ UNCHANGED <<serverVars, inbox, presenceMain, nextSocket, hook, ws,
                 ntyping, analyst>>

\* connection 'connected'; the subscription to the public channel is up.
AppConnected(a) ==
  /\ app[a].pusher
  /\ ~app[a].isConnected
  /\ app' = [app EXCEPT ![a].isConnected = TRUE]
  /\ UNCHANGED <<serverVars, inbox, presenceMain, nextSocket, hook, ws,
                 ntyping, analyst>>

\* The bodies sendStoryUpdate and sendTypingIndicator post to
\* /api/pusher/trigger.
StoryUpdateBody(a, storyId, changes, t) ==
  [channel |-> StoryCollaboration,
   event |-> "story-updated",
   data |-> [storyId |-> storyId, changes |-> changes, user |-> AppUser(a),
             timestamp |-> t]]

TypingBody(a, storyId, isTyping) ==
  [channel |-> StoryCollaboration,
   event |-> "user-typing",
   data |-> [storyId |-> storyId, isTyping |-> isTyping,
             user |-> AppUser(a)]]

\* StoryEditor.handleChange
HandleChange(a, newStory) ==
  /\ app[a].pusher
  /\ ntyping < MaxTyping
  /\ ntyping' = ntyping + 1
  /\ app' = [app EXCEPT ![a].story = newStory,
                        ![a].isDirty = TRUE,
                        ![a].typingTimeout = TRUE,
                        ![a].storyTimeout = newStory]
  /\ TriggerRoute(TypingBody(a, "main-story", TRUE))
  /\ UNCHANGED <<presenceMain, nextSocket, hook, ws, analyst>>

\* The timer of 1000 ms handleChange sets on typingTimeoutRef.
TypingTimeout(a) ==
  /\ app[a].typingTimeout
  /\ app' = [app EXCEPT ![a].typingTimeout = FALSE]
  /\ TriggerRoute(TypingBody(a, "main-story", FALSE))
  /\ UNCHANGED <<presenceMain, nextSocket, hook, ws, ntyping, analyst>>

\* The timer of 500 ms handleChange sets on window.storyTimeout:
\* onStoryChange is StoryEditorApp.handleStoryChange.
StoryTimeout(a) ==
  /\ app[a].storyTimeout # Null
  /\ LET newStory == app[a].storyTimeout
     IN  /\ app' = [app EXCEPT ![a].currentStory = newStory,
                               ![a].lastSavedVersion = newStory,
                               ![a].isDirty = FALSE,
                               ![a].storyTimeout = Null]
         /\ TriggerRoute(StoryUpdateBody(a, "main-story",
                                         [content |-> newStory], now))
  /\ UNCHANGED <<presenceMain, nextSocket, hook, ws, ntyping, analyst>>

\* changes.content || story
ContentOr(changes, story) ==
  IF "content" \in DOMAIN changes /\ changes.content # ""
    THEN changes.content
    ELSE story

\* StoryEditor.handleCollaborativeUpdate
HandleCollaborativeUpdate(a, state, detail) ==
  IF detail.user.id # AppUser(a).id
    THEN [state EXCEPT !.story = ContentOr(detail.changes, state.story),
                       !.lastSavedVersion =
                          ContentOr(detail.changes, state.story),
                       !.updates = Append(state.updates, detail)]
    ELSE [state EXCEPT !.updates = Append(state.updates, detail)]

\* The handlers the mount effect binds on the channel.
AppHandle(a, state, ev) ==
  CASE ev.event = "user-joined" ->
         [state EXCEPT !.connectedUsers =
            Append(SelectSeq(state.connectedUsers,
                             LAMBDA u : u.id # ev.data.user.id),
                   ev.data.user)]
    [] ev.event = "user-left" ->
         [state EXCEPT !.connectedUsers =
            SelectSeq(state.connectedUsers,
                      LAMBDA u : u.id # ev.data.userId)]
    [] ev.event = "story-updated" ->
         HandleCollaborativeUpdate(a, state, ev.data)
    [] ev.event = "user-typing" ->
         [state EXCEPT !.typingUsers =
            IF ev.data.isTyping
              THEN @ \cup {ev.data.user.id \o "-" \o ev.data.storyId}
              ELSE @ \ {ev.data.user.id \o "-" \o ev.data.storyId}]
    [] OTHER -> state

AppDeliver(a) ==
  /\ app[a].pusher
  /\ inbox[a] # <<>>
  /\ app' = [app EXCEPT ![a] = AppHandle(a, app[a], Head(inbox[a]))]
  /\ inbox' = [inbox EXCEPT ![a] = Tail(inbox[a])]
  /\ UNCHANGED <<serverVars, presenceMain, nextSocket, hook, ws, ntyping,
                 analyst>>

\* StoryEditor: the users the editor shows as typing.
CurrentTypingUsers(a) ==
  SelectSeq(app[a].connectedUsers,
            LAMBDA u : /\ u.id # AppUser(a).id
                       /\ (u.id \o "-main-story") \in app[a].typingUsers)

\* StoryEditorApp.handlePublish, up to the answer of apiService.publishStory.
\* The Publish button is disabled while isPublishing or isDirty.
HandlePublish(a) ==
  /\ app[a].pusher
  /\ ~app[a].isPublishing
  /\ ~app[a].isDirty
  /\ Trim(app[a].currentStory) # ""
  /\ nreq < MaxAppRequests
  /\ PublishStory("main-story", EmptyObj)
  /\ app' = [app EXCEPT ![a].isPublishing = TRUE,
                        ![a].publishing = app[a].currentStory,
                        ![a].publishResult = resp'.status]
  /\ UNCHANGED <<presenceMain, nextSocket, hook, ws, ntyping, analyst>>

\* StoryEditorApp.handlePublish, from the answer on.
HandlePublishAnswered(a) ==
  /\ app[a].isPublishing
  /\ IF app[a].publishResult = 200
       THEN /\ app' = [app EXCEPT
                         ![a].publishedStory = app[a].publishing,
                         ![a].stories =
                           MapSeq(@, LAMBDA story :
                             IF story.id = "1"
                               THEN Merge(story,
                                          [content |-> app[a].publishing,
                                           status |-> "published"])
                               ELSE story),
                         ![a].isPublishing = FALSE]
            /\ TriggerRoute(
                 StoryUpdateBody(a, "main-story",
                                 [content |-> app[a].publishing,
                                  status |-> "published"], now))
       ELSE /\ app' = [app EXCEPT ![a].isPublishing = FALSE]
            /\ UNCHANGED <<serverVars, inbox>>
  /\ UNCHANGED <<presenceMain, nextSocket, hook, ws, ntyping, analyst>>

\* StoryMappingBoard.handleDrop of a dragged story on the column of
\* targetEpicId (an epic's id, or 'unassigned'), which calls
\* StoryEditorApp.handleUpdateStory.
HandleDrop(a, draggedItem, targetEpicId) ==
  /\ app' = [app EXCEPT ![a].stories =
               IF draggedItem.epicId # targetEpicId
                 THEN MapSeq(@, LAMBDA story :
                        IF story.id = draggedItem.id
                          THEN Merge(draggedItem,
                                     [type |-> "story",
                                      epicId |-> targetEpicId])
                          ELSE story)
                 ELSE @]
  /\ UNCHANGED <<serverVars, inbox, presenceMain, nextSocket, hook, ws,
                 ntyping, analyst>>

\* StoryEditorApp.handleDeleteEpic
HandleDeleteEpic(a, epicId) ==
  /\ app' = [app EXCEPT
               ![a].epics = SelectSeq(@, LAMBDA epic : epic.id # epicId),
               ![a].stories =
                 MapSeq(@, LAMBDA story :
                   IF story.epicId = epicId
                     THEN [story EXCEPT !.epicId = Null]
                     ELSE story)]
  /\ UNCHANGED <<serverVars, inbox, presenceMain, nextSocket, hook, ws,
                 ntyping, analyst>>

\* StoryEditorApp.handleAddEpic
NewBoardEpic(t, order) ==
  [id |-> "epic-" \o ToString(t), title |-> "New Epic",
   description |-> "Epic description", order |-> order]

HandleAddEpic(a) ==
  /\ app' = [app EXCEPT ![a].epics =
               Append(@, NewBoardEpic(now, Len(app[a].epics) + 1))]
  /\ UNCHANGED <<serverVars, inbox, presenceMain, nextSocket, hook, ws,
                 ntyping, analyst>>

----------------------------------------------------------------------------
\* agents/story-analyst.js: StoryAnalystAgent.

\* The characters of code 32 to 95 and of code 97 to 122, in the order of
\* their codes: the characters a story of the model is written in.
Ascii32 == " !\"#$%&'()*+,-./0123456789:;<=>?@ABCDEFGHIJKLMNOPQRSTUVWXYZ[\\]^_"

Ascii97 == "abcdefghijklmnopqrstuvwxyz"

\* The character at position i of s.
CharAt(s, i) == SubSeq(s, i, i)

\* s.charCodeAt(i)
CharCode(c) ==
  IF \E i \in 1..Len(Ascii97) : CharAt(Ascii97, i) = c
    THEN 96 + CHOOSE i \in 1..Len(Ascii97) : CharAt(Ascii97, i) = c
    ELSE 31 + CHOOSE i \in 1..Len(Ascii32) : CharAt(Ascii32, i) = c

\* s.toLowerCase(), character by character
RECURSIVE ToLowerCase(_)
ToLowerCase(s) ==
  IF Len(s) = 0
    THEN ""
    ELSE IF Len(s) = 1
      THEN IF CharCode(s) >= 65 /\ CharCode(s) <= 90
             THEN CharAt(Ascii97, CharCode(s) + 32 - 96)
             ELSE s
      ELSE ToLowerCase(SubSeq(s, 1, Len(s) \div 2))
             \o ToLowerCase(SubSeq(s, Len(s) \div 2 + 1, Len(s)))

\* s.includes(t)
Includes(s, t) ==
  \E i \in 1..(Len(s) - Len(t) + 1) : SubSeq(s, i, i + Len(t) - 1) = t

\* s.match(/t1|t2|.../i), as a truth value
MatchesAny(s, alternatives) ==
  LET lower == ToLowerCase(s)
  IN  \E t \in alternatives : Includes(lower, t)

\* s.split(' ').length
SplitLength(s) == Cardinality({i \in 1..Len(s) : CharAt(s, i) = " "}) + 1

\* array.join(separator)
RECURSIVE Join(_, _)
Join(array, separator) ==
  IF array = <<>>
    THEN ""
    ELSE IF Len(array) = 1
      THEN array[1]
      ELSE array[1] \o separator \o Join(Tail(array), separator)

\* story.description.match(/as a|as an/i)
HasUserRole(story) == MatchesAny(story.description, {"as a", "as an"})

\* story.description.toLowerCase().includes('so that')
HasUserValue(story) == Includes(ToLowerCase(story.description), "so that")

\* story.acceptanceCriteria && story.acceptanceCriteria.length > 0
HasCriteria(story) ==
  /\ "acceptanceCriteria" \in DOMAIN story
  /\ Len(story.acceptanceCriteria) > 0

\* story.acceptanceCriteria?.length || 0
CriteriaCount(story) ==
  IF "acceptanceCriteria" \in DOMAIN story
    THEN Len(story.acceptanceCriteria)
    ELSE 0

suggestUserRole(story) ==
  IF Includes(ToLowerCase(story.title), "admin")
    THEN "As an administrator, " \o story.description
    ELSE IF \/ Includes(ToLowerCase(story.title), "customer")
            \/ Includes(ToLowerCase(story.title), "user")
      THEN "As a user, " \o story.description
      ELSE "As a [user type], " \o story.description

suggestValueStatement(story) ==
  IF ~HasUserRole(story)
    THEN suggestUserRole(story) \o " so that [value statement]"
    ELSE story.description \o " so that [value statement]"

\* One entry of investScore. A confidence is written in hundredths.
Criterion(score, confidence, reasoning, suggestions, severity, isEditable) ==
  [score |-> score, confidence |-> confidence, reasoning |-> reasoning,
   suggestions |-> suggestions, severity |-> severity,
   isEditable |-> isEditable]

Suggestion(type, field, currentValue, suggestedValue, reasoning, confidence) ==
  [type |-> type, field |-> field, currentValue |-> currentValue,
   suggestedValue |-> suggestedValue, reasoning |-> reasoning,
   confidence |-> confidence]

analyzeIndependence(story) ==
  LET hasNoDependencies ==
        ~MatchesAny(story.description,
                    {"after", "before", "requires", "depends on"})
  IN  Criterion(hasNoDependencies, 80,
        IF hasNoDependencies
          THEN "Story appears to be independent of other stories"
          ELSE "Story contains dependency indicators",
        IF hasNoDependencies
          THEN <<>>
          ELSE <<Suggestion("modify", "description", story.description,
                   "Consider rephrasing to remove dependencies",
                   "Independent stories can be developed and delivered separately",
                   70)>>,
        IF hasNoDependencies THEN "low" ELSE "medium",
        TRUE)

analyzeNegotiability(story) ==
  LET score ==
        ~MatchesAny(story.description,
                    {"must use", "should be implemented",
                     "technical requirement"})
  IN  Criterion(score, 70,
        IF score
          THEN "Story focuses on user needs rather than implementation"
          ELSE "Story contains implementation details that reduce negotiability",
        IF score
          THEN <<>>
          ELSE <<Suggestion("modify", "description", story.description,
                   "Focus on what the user needs, not how to implement it",
                   "Negotiable stories allow for creative solutions", 80)>>,
        "low",
        TRUE)

analyzeValue(story) ==
  LET score == HasUserValue(story) /\ HasUserRole(story)
  IN  Criterion(score, 90,
        IF score
          THEN "Story clearly expresses user value"
          ELSE "Story needs clearer value proposition",
        IF score
          THEN <<>>
          ELSE <<Suggestion("modify", "description", story.description,
                   suggestValueStatement(story),
                   "Every story should deliver clear value to users", 85)>>,
        IF score THEN "low" ELSE "high",
        TRUE)

analyzeEstimability(story) ==
  LET hasEnoughDetail == Len(story.description) > 50
      hasCriteria == HasCriteria(story)
      score == hasEnoughDetail /\ hasCriteria
  IN  Criterion(score, 75,
        IF score
          THEN "Story has sufficient detail for estimation"
          ELSE "Story needs more detail to be properly estimated",
        IF score \/ hasCriteria
          THEN <<>>
          ELSE <<Suggestion("add", "acceptanceCriteria", "",
                   "Given [context], When [action], Then [outcome]",
                   "Acceptance criteria help with estimation", 90)>>,
        "medium",
        TRUE)

analyzeSize(story) ==
  LET wordCount == SplitLength(story.description)
      criteriaCount == CriteriaCount(story)
      complexity == wordCount + (criteriaCount * 10)
      score == complexity < 100
  IN  Criterion(score, 60,
        IF score
          THEN "Story appears to be appropriately sized"
          ELSE "Story may be too large and should be split",
        IF score
          THEN <<>>
          ELSE <<Suggestion("split", "description", story.description,
                   "Consider splitting this story into smaller pieces",
                   "Smaller stories are easier to estimate and deliver",
                   80)>>,
        IF score THEN "low" ELSE "high",
        FALSE)

analyzeTestability(story) ==
  LET hasCriteria == HasCriteria(story)
      criteriaAreTestable ==
        /\ hasCriteria
        /\ \A i \in 1..Len(story.acceptanceCriteria) :
             MatchesAny(story.acceptanceCriteria[i],
                        {"given", "when", "then", "should", "must", "can"})
      score == hasCriteria /\ criteriaAreTestable
  IN  Criterion(score, 85,
        IF score
          THEN "Story has clear, testable acceptance criteria"
          ELSE "Story needs testable acceptance criteria",
        IF score
          THEN <<>>
          ELSE <<Suggestion(IF hasCriteria THEN "modify" ELSE "add",
                   "acceptanceCriteria",
                   IF hasCriteria
                     THEN Join(story.acceptanceCriteria, "; ")
                     ELSE "",
                   "Use Given/When/Then format for clear test scenarios",
                   "Testable stories ensure quality delivery", 90)>>,
        IF score THEN "low" ELSE "high",
        TRUE)

assessSize(story) ==
  LET description ==
        IF "description" \in DOMAIN story THEN story.description ELSE ""
      criteriaCount == CriteriaCount(story)
      complexity == Len(description) + (criteriaCount * 50)
      estimatedSize ==
        IF complexity < 100 THEN "XS"
        ELSE IF complexity < 200 THEN "S"
        ELSE IF complexity < 400 THEN "M"
        ELSE IF complexity < 600 THEN "L"
        ELSE IF complexity < 800 THEN "XL"
        ELSE "XXL"
  IN  [estimatedSize |-> estimatedSize,
       confidence |-> 70,
       complexityFactors |->
         <<"Description length", "Number of acceptance criteria",
           "Implied technical complexity">>,
       riskFactors |->
         IF estimatedSize \in {"XL", "XXL"}
           THEN <<"Size may impact delivery timeline", "Consider splitting">>
           ELSE <<>>]

Issue(id, issue, category, severity, suggestion, autoFixable) ==
  [id |-> id, issue |-> issue, category |-> category, severity |-> severity,
   suggestion |-> suggestion, autoFixable |-> autoFixable]

vagueTerms == {"some", "various", "multiple", "etc", "and so on"}

findQualityIssues(story, investScore) ==
  (IF ~HasUserRole(story)
     THEN <<Issue("missing-user-role", "Story missing user role",
                  "structure", "high", suggestUserRole(story), TRUE)>>
     ELSE <<>>)
  \o (IF ~HasUserValue(story)
        THEN <<Issue("missing-value", "Story missing value statement",
                     "completeness", "high", suggestValueStatement(story),
                     TRUE)>>
        ELSE <<>>)
  \o (IF \E term \in vagueTerms :
            Includes(ToLowerCase(story.description), term)
        THEN <<Issue("vague-language", "Story contains vague language",
                     "clarity", "medium",
                     "Replace vague terms with specific requirements",
                     FALSE)>>
        ELSE <<>>)

\* Object.entries(investScore), in the order the object was written.
InvestOrder ==
  <<"independent", "negotiable", "valuable", "estimable", "small",
    "testable">>

\* Math.round((passedCount / scores.length) * 100)
calculateOverallScore(investScore) ==
  LET passedCount ==
        Cardinality({c \in DOMAIN investScore : investScore[c].score})
      length == Cardinality(DOMAIN investScore)
  IN  (2 * passedCount * 100 + length) \div (2 * length)

performAnalysis(story, t) ==
  LET investScore ==
        [independent |-> analyzeIndependence(story),
         negotiable |-> analyzeNegotiability(story),
         valuable |-> analyzeValue(story),
         estimable |-> analyzeEstimability(story),
         small |-> analyzeSize(story),
         testable |-> analyzeTestability(story)]
      overallScore == calculateOverallScore(investScore)
  IN  [investScore |-> investScore,
       sizeAssessment |-> assessSize(story),
       qualityIssues |-> findQualityIssues(story, investScore),
       overallScore |-> overallScore,
       readinessLevel |->
         IF overallScore >= 80 THEN "ready"
         ELSE IF overallScore >= 60 THEN "needs-work"
         ELSE "not-ready",
       analysisMetadata |->
         [analysisTime |-> t, confidence |-> 85, tokensUsed |-> 250,
          modelVersion |-> "story-analyst-v1"]]

inferFieldFromIssue(issue) ==
  IF Includes(issue.id, "title") THEN "title"
  ELSE IF Includes(issue.id, "criteria") THEN "acceptanceCriteria"
  ELSE "description"

getCurrentValue(story, field) ==
  CASE field = "title" -> story.title
    [] field = "description" -> story.description
    [] field = "acceptanceCriteria" ->
         IF "acceptanceCriteria" \in DOMAIN story
           THEN Join(story.acceptanceCriteria, "; ")
           ELSE ""
    [] OTHER -> ""

RECURSIVE Flatten(_)
Flatten(seqs) ==
  IF seqs = <<>> THEN <<>> ELSE Head(seqs) \o Flatten(Tail(seqs))

generateImprovementSuggestions(analysis, story) ==
  LET fromInvest ==
        Flatten([i \in 1..Len(InvestOrder) |->
                   LET result == analysis.investScore[InvestOrder[i]]
                   IN  IF ~result.score THEN result.suggestions ELSE <<>>])
      fixable ==
        SelectSeq(analysis.qualityIssues,
                  LAMBDA issue : issue.autoFixable /\ issue.suggestion # "")
      fromIssues ==
        [i \in 1..Len(fixable) |->
           Suggestion("modify", inferFieldFromIssue(fixable[i]),
                      getCurrentValue(story, inferFieldFromIssue(fixable[i])),
                      fixable[i].suggestion, fixable[i].issue, 80)]
      all == fromInvest \o fromIssues
  IN  [i \in 1..Len(all) |->
         Merge([id |-> "suggestion-" \o ToString(i)], all[i])]

applySuggestionToStory(story, suggestion) ==
  CASE suggestion.field = "title" ->
         Merge(story, [title |-> suggestion.suggestedValue])
    [] suggestion.field = "description" ->
         Merge(story, [description |-> suggestion.suggestedValue])
    [] suggestion.field = "acceptanceCriteria" /\ suggestion.type = "add" ->
         Merge(story,
               [acceptanceCriteria |->
                  Append(IF "acceptanceCriteria" \in DOMAIN story
                           THEN story.acceptanceCriteria
                           ELSE <<>>,
                         suggestion.suggestedValue)])
    [] OTHER -> story

RECURSIVE applyAllSuggestionsToStory(_, _)
applyAllSuggestionsToStory(story, suggestions) ==
  IF suggestions = <<>>
    THEN story
    ELSE applyAllSuggestionsToStory(
           IF Head(suggestions).confidence > 60
             THEN applySuggestionToStory(story, Head(suggestions))
             ELSE story,
           Tail(suggestions))

calculateSimpleQualityScore(story) ==
  (IF Len(story.title) > 5 THEN 20 ELSE 0)
  + (IF Len(story.description) > 20 THEN 20 ELSE 0)
  + (IF Includes(ToLowerCase(story.description), "as a") THEN 10 ELSE 0)
  + (IF Includes(ToLowerCase(story.description), "so that") THEN 10 ELSE 0)
  + (IF CriteriaCount(story) > 0 THEN 20 ELSE 0)
  + (IF CriteriaCount(story) > 2 THEN 10 ELSE 0)
  + (IF "estimatedSize" \in DOMAIN story THEN 10 ELSE 0)

getQualityBadges(score) ==
  IF score >= 80 THEN <<"excellent">>
  ELSE IF score >= 60 THEN <<"good">>
  ELSE IF score >= 40 THEN <<"needs-work">>
  ELSE <<"incomplete">>

\* story.acceptanceCriteria, to compare as JSON.stringify writes it
Criteria(story) ==
  IF "acceptanceCriteria" \in DOMAIN story
    THEN story.acceptanceCriteria
    ELSE <<>>

getChangedFields(original, updated) ==
  (IF original.title # updated.title THEN <<"title">> ELSE <<>>)
  \o (IF original.description # updated.description
        THEN <<"description">>
        ELSE <<>>)
  \o (IF Criteria(original) # Criteria(updated)
        THEN <<"acceptanceCriteria">>
        ELSE <<>>)

calculateStoryBoardImpact(original, updated) ==
  IF getChangedFields(original, updated) # <<>>
    THEN <<[type |-> "modify",
            storyId |-> original.id,
            changes |-> [title |-> updated.title,
                         description |-> updated.description,
                         acceptanceCriteria |-> Criteria(updated)],
            visualIndicators |->
              [qualityScore |-> calculateSimpleQualityScore(updated),
               badges |->
                 getQualityBadges(calculateSimpleQualityScore(updated)),
               highlights |-> getChangedFields(original, updated)]]>>
    ELSE <<>>

createInteractiveAnalysis(analysis, story) ==
  LET improvementSuggestions ==
        generateImprovementSuggestions(analysis, story)
      improvedStory ==
        applyAllSuggestionsToStory(story, improvementSuggestions)
  IN  Merge(analysis,
        [improvementSuggestions |-> improvementSuggestions,
         preview |->
           [originalStory |-> story,
            improvedStory |-> improvedStory,
            storyBoardImpact |->
              calculateStoryBoardImpact(story, improvedStory)],
         userState |->
           [status |-> "suggested", appliedSuggestions |-> <<>>,
            editHistory |-> <<>>],
         validation |->
           [canApply |-> TRUE, warnings |-> <<>>, conflicts |-> <<>>],
         shouldTriggerOtherAgents |->
           [splitter |->
              analysis.sizeAssessment.estimatedSize \in {"XL", "XXL"},
            coach |-> analysis.overallScore < 60,
            reviewer |-> TRUE]])

\* hashContent keeps its hash in 32 bits: the hash is held here as the two
\* 16-bit halves of its unsigned value.
Half == 2^16

\* hash = ((hash << 5) - hash) + char; hash = hash & hash
HashStep(hash, char) ==
  LET lo == 31 * hash[2] + char
      hi == 31 * hash[1] + (lo \div Half)
  IN  <<hi % Half, lo % Half>>

\* The values the two halves take.
Halves == (0..(Half - 1)) \X (0..(Half - 1))

\* for (let i = 0; i < content.length; i++), from the character at `from`
\* to the one at `to`, in their order. The hash stays within its 32 bits.
RECURSIVE HashLoop(_, _, _, _)
HashLoop(hash, content, from, to) ==
  IF from > to \/ hash \notin Halves
    THEN hash
    ELSE IF from = to
      THEN HashStep(hash, CharCode(CharAt(content, from)))
      ELSE LET middle == (from + to) \div 2
           IN  HashLoop(HashLoop(hash, content, from, middle),
                        content, middle + 1, to)

\* The signed 32-bit integer of the two halves.
ToInt32(hash) ==
  IF hash[1] >= Half \div 2
    THEN (hash[1] - Half) * Half + hash[2]
    ELSE hash[1] * Half + hash[2]

hashContent(content) ==
  ToString(ToInt32(HashLoop(<<0, 0>>, content, 1, Len(content))))

\* A field of a story written into a string: undefined when it is missing.
Text(story, field) ==
  IF field \in DOMAIN story THEN story[field] ELSE "undefined"

generateCacheKey(story) ==
  LET content ==
        Text(story, "title") \o Text(story, "description")
          \o (IF "acceptanceCriteria" \in DOMAIN story
                THEN Join(story.acceptanceCriteria, "")
                ELSE "")
  IN  "analyst_" \o story.id \o "_" \o hashContent(content) \o "_"
        \o ToString(story.version)

\* 30 minutes
maxAge == 30 * 60 * 1000

isCacheValid(cachedResult, t) ==
  t - cachedResult.analysisMetadata.analysisTime < maxAge

UnableToAnalyze(score, severity) ==
  Criterion(score, 50, "Unable to analyze", <<>>, severity, FALSE)

fallbackAnalysis(story, t) ==
  [investScore |->
     [independent |-> UnableToAnalyze(TRUE, "low"),
      negotiable |-> UnableToAnalyze(TRUE, "low"),
      valuable |-> UnableToAnalyze(FALSE, "medium"),
      estimable |-> UnableToAnalyze(FALSE, "medium"),
      small |-> UnableToAnalyze(TRUE, "low"),
      testable |-> UnableToAnalyze(FALSE, "high")],
   sizeAssessment |->
     [estimatedSize |-> "M", confidence |-> 30,
      complexityFactors |-> <<"Unable to analyze">>, riskFactors |-> <<>>],
   qualityIssues |-> <<>>,
   overallScore |-> 50,
   readinessLevel |-> "needs-work",
   improvementSuggestions |-> <<>>,
   preview |->
     [originalStory |-> story, improvedStory |-> story,
      storyBoardImpact |-> <<>>],
   userState |->
     [status |-> "suggested", appliedSuggestions |-> <<>>,
      editHistory |-> <<>>],
   validation |->
     [canApply |-> FALSE,
      warnings |-> <<"Analysis failed - using fallback">>,
      conflicts |-> <<>>],
   analysisMetadata |->
     [analysisTime |-> t, confidence |-> 30, tokensUsed |-> 0,
      modelVersion |-> "fallback"],
   shouldTriggerOtherAgents |->
     [splitter |-> FALSE, coach |-> TRUE, reviewer |-> FALSE]]

\* The stories the agent is asked to analyse. The first two differ in their
\* acceptance criteria only, the third is the second at its next version, and
\* the last has no description.
LoginDescription == "As a user I can log in so that I see my data"

AnalystStories ==
  { [id |-> "1", version |-> 1, title |-> "User login",
     description |-> LoginDescription,
     acceptanceCriteria |-> <<"User can log in">>],
    [id |-> "1", version |-> 1, title |-> "User login",
     description |-> LoginDescription,
     acceptanceCriteria |-> <<"User", " can log in">>],
    [id |-> "1", version |-> 2, title |-> "User login",
     description |-> LoginDescription,
     acceptanceCriteria |-> <<"User", " can log in">>],
    [id |-> "2", version |-> 1, title |-> "Admin export",
     acceptanceCriteria |-> <<>>] }

\* new StoryAnalystAgent(llmClient); `calls` keeps what analyzeStory was
\* given and what it returned, call by call.
AnalystInit == [cache |-> EmptyObj, calls |-> <<>>]

\* What analyzeStory returns, and whether it caches it.
Analysis(story, cache, t) ==
  LET cacheKey == generateCacheKey(story)
  IN  IF cacheKey \in DOMAIN cache /\ isCacheValid(cache[cacheKey], t)
        THEN [result |-> cache[cacheKey], cached |-> FALSE]
        ELSE IF "description" \notin DOMAIN story
          THEN [result |-> fallbackAnalysis(story, t), cached |-> FALSE]
          ELSE [result |->
                  createInteractiveAnalysis(performAnalysis(story, t), story),
                cached |-> TRUE]

analyzeStory(story) ==
  /\ Len(analyst.calls) < MaxCalls
  /\ LET analysis == Analysis(story, analyst.cache, now)
     IN  analyst' =
           [cache |->
              IF analysis.cached
                THEN MapSet(analyst.cache, generateCacheKey(story),
                            analysis.result)
                ELSE analyst.cache,
            calls |->
              Append(analyst.calls,
                     [story |-> story, result |-> analysis.result])]
  /\ UNCHANGED <<serverVars, inbox, presenceMain, nextSocket, hook, ws,
                 ntyping, app>>

\* The validity of the cache runs out.
CacheAges ==
  /\ now <= MaxClock
  /\ now' = now + maxAge
  /\ UNCHANGED <<stories, epics, env, triggered, req, resp, nreq, inbox>>
  /\ UNCHANGED clientVars

----------------------------------------------------------------------------

\* server/index.js: the read routes and the story hierarchy.

\* Array.from(stories.values()).filter(story => story.parentStoryId === id),
\* as the set of its elements.
SubStories(store, id) ==
  {store[k] : k \in {x \in DOMAIN store : store[x].parentStoryId = id}}

\* GET /api/stories/main, registered before GET /api/stories/:id: a GET on
\* the id 'main' is answered by it.
GetMainStories ==
  /\ Handled("GET /api/stories/main", Null, EmptyObj, 200,
             SubStories(stories, Null))
  /\ UNCHANGED <<stories, epics, now, env, triggered, inbox>>

\* GET /api/stories/:id
GetStory(id) ==
  IF id = "main"
    THEN GetMainStories
    ELSE /\ IF id \notin DOMAIN stories
              THEN Handled("GET /api/stories/:id", id, EmptyObj, 404,
                           [error |-> "Story not found"])
              ELSE Handled("GET /api/stories/:id", id, EmptyObj, 200,
                           stories[id])
         /\ UNCHANGED <<stories, epics, now, env, triggered, inbox>>

\* GET /api/stories/:id/substories
GetSubstories(id) ==
  /\ IF id \notin DOMAIN stories
       THEN Handled("GET /api/stories/:id/substories", id, EmptyObj, 404,
                    [error |-> "Parent story not found"])
       ELSE Handled("GET /api/stories/:id/substories", id, EmptyObj, 200,
                    SubStories(stories, id))
  /\ UNCHANGED <<stories, epics, now, env, triggered, inbox>>

\* GET /api/epics/:id
GetEpic(id) ==
  /\ IF id \notin DOMAIN epics
       THEN Handled("GET /api/epics/:id", id, EmptyObj, 404,
                    [error |-> "Epic not found"])
       ELSE Handled("GET /api/epics/:id", id, EmptyObj, 200, epics[id])
  /\ UNCHANGED <<stories, epics, now, env, triggered, inbox>>

\* object.field || fallback, for the fields of the requests tried (none of
\* which is falsy when present); a field that is not there reads undefined.
FieldOr(split, field, fallback) ==
  IF field \in DOMAIN split THEN split[field] ELSE fallback

\* POST /api/stories/:id/accept-splits: newStory, for the split at `index`.
NewStory(split, index, id, parentStory, t) ==
  [id |-> "story-" \o ToString(t) \o "-" \o ToString(index),
   title |-> split.title,
   description |-> FieldOr(split, "description", ""),
   content |-> "As a user, I can " \o ToLowerCase(split.title),
   parentStoryId |-> id,
   epicId |-> FieldOr(parentStory, "epicId", Null),
   priority |-> FieldOr(split, "priority", "Medium"),
   effort |-> FieldOr(split, "effort", "Medium"),
   storyPoints |-> FieldOr(split, "storyPoints", 0),
   acceptanceCriteria |-> FieldOr(split, "acceptanceCriteria", <<>>),
   status |-> "draft",
   version |-> 1,
   createdAt |-> t,
   lastModified |-> t,
   createdFrom |-> "ai-split"]

\* split.title.toLowerCase() throws a TypeError when the split has no title.
Throws(split) == "title" \notin DOMAIN split

\* The number of splits splits.forEach handles before one throws.
RECURSIVE Handled_splits(_, _)
Handled_splits(splits, from) ==
  IF from > Len(splits) \/ Throws(splits[from])
    THEN from - 1
    ELSE Handled_splits(splits, from + 1)

\* splits.forEach: the store after the first n splits were stored, in order.
RECURSIVE ForEach(_, _, _, _, _, _)
ForEach(store, splits, n, id, parentStory, t) ==
  IF n = 0
    THEN store
    ELSE LET before == ForEach(store, splits, n - 1, id, parentStory, t)
             newStory == NewStory(splits[n], n - 1, id, parentStory, t)
         IN  MapSet(before, newStory.id, newStory)

\* updatedParent
UpdatedParent(parentStory, t) ==
  Merge(parentStory, [hasSplits |-> TRUE, lastModified |-> t])

\* POST /api/stories/:id/accept-splits. An exception thrown by the handler
\* reaches the error handling middleware, which answers 500.
AcceptSplits(id, body) ==
  /\ IF id \notin DOMAIN stories
       THEN /\ Handled("POST /api/stories/:id/accept-splits", id, body, 404,
                       [error |-> "Parent story not found"])
            /\ UNCHANGED stories
       ELSE IF "splits" \notin DOMAIN body
         THEN /\ Handled("POST /api/stories/:id/accept-splits", id, body, 500,
                         [error |-> "TypeError"])
              /\ UNCHANGED stories
         ELSE LET splits == body.splits
                  parentStory == stories[id]
                  n == Handled_splits(splits, 1)
                  stored == ForEach(stories, splits, n, id, parentStory, now)
                  updatedParent == UpdatedParent(parentStory, now)
              IN  IF n < Len(splits)
                    THEN /\ stories' = stored
                         /\ Handled("POST /api/stories/:id/accept-splits", id,
                                    body, 500, [error |-> "TypeError"])
                    ELSE /\ stories' = MapSet(stored, id, updatedParent)
                         /\ Handled("POST /api/stories/:id/accept-splits", id,
                                    body, 201,
                                    [parentStory |-> updatedParent,
                                     subStories |->
                                       [i \in 1..n |->
                                          NewStory(splits[i], i - 1, id,
                                                   parentStory, now)]])
  /\ UNCHANGED <<epics, now, env, triggered, inbox>>

\* The bodies accept-splits is tried with.
SplitBodies ==
  { [splits |-> << [title |-> "Reset password"],
                   [title |-> "Log out", priority |-> "High"] >>],
    [splits |-> << [title |-> "Log out"], [description |-> "Untitled"] >>],
    [note |-> "no splits"] }

----------------------------------------------------------------------------

InitWith(e) ==
  /\ stories = InitialStories
  /\ epics = InitialEpics
  /\ now = 0
  /\ env = e
  /\ triggered = <<>>
  /\ req = [route |-> "none", id |-> Null, body |-> EmptyObj]
  /\ resp = [status |-> 0, body |-> EmptyObj]
  /\ nreq = 0
  /\ inbox = [c \in Clients |-> <<>>]
  /\ presenceMain = <<>>
  /\ nextSocket = 0
  /\ hook = [h \in Hooks |-> HookInit]
  /\ ws = [w \in WSs |-> WsInit]
  /\ ntyping = 0
  /\ app = [a \in Apps |-> AppInit]
  /\ analyst = AnalystInit

\* The server started as the README configures it.
Init == InitWith(ReadmeEnv)

\* The server started under any configuration.
InitAnyEnv == \E e \in Envs : InitWith(e)

\* The story and epic routes, under any sequence of requests.
NextServer ==
  \/ \E id \in RequestIds(stories), body \in PutBodies :
       CanRequest /\ PutStory(id, body) /\ UNCHANGED clientVars
  \/ \E id \in RequestIds(stories) :
       CanRequest /\ PublishStory(id, EmptyObj) /\ UNCHANGED clientVars
  \/ \E body \in PostBodies :
       CanRequest /\ PostStory(body) /\ UNCHANGED clientVars
  \/ \E id \in RequestIds(stories) :
       CanRequest /\ DeleteStory(id) /\ UNCHANGED clientVars
  \/ \E id \in RequestIds(epics), body \in EpicBodies :
       CanRequest /\ PutEpic(id, body) /\ UNCHANGED clientVars
  \/ \E body \in TriggerBodies :
       CanRequest /\ TriggerRoute(body) /\ UNCHANGED clientVars
  \/ Tick

SpecServer == Init /\ [][NextServer]_vars

\* The agent route between updates of the stores, under any configuration.
NextAgents ==
  \/ \E t \in AgentTypes, body \in AgentBodies :
       CanRequest /\ AgentRoute(t, body) /\ UNCHANGED clientVars
  \/ \E body \in PutBodies :
       CanRequest /\ PutStory("main-story", body) /\ UNCHANGED clientVars
  \/ \E body \in EpicBodies :
       CanRequest /\ PutEpic("epic1", body) /\ UNCHANGED clientVars
  \/ Tick

SpecAgents == InitAnyEnv /\ [][NextAgents]_vars

\* The hook clients and the presence channel.
NextPresence ==
  \/ \E h \in Hooks : HookMount(h)
  \/ \E h \in Hooks : TypingEffect(h)
  \/ \E h \in Hooks : HookConnected(h)
  \/ \E h \in Hooks : HookDeliver(h)
  \/ \E h \in Hooks : HookUnmount(h)

SpecPresence == Init /\ [][NextPresence]_vars

\* The story ids the clients subscribe to.
SyncIds == {"main-story"}

\* Story updates between the server and the clients subscribed to a story.
NextSync ==
  \/ \E h \in Hooks : HookMount(h)
  \/ \E h \in Hooks : TypingEffect(h)
  \/ \E h \in Hooks : HookConnected(h)
  \/ \E h \in Hooks : HookDeliver(h)
  \/ \E h \in Hooks, id \in SyncIds : SubscribeToStory(h, id)
  \/ \E h \in Hooks, id \in SyncIds : UnsubscribeFromStory(h, id)
  \/ \E w \in WSs, id \in SyncIds, cbs \in CallbackSets : WsConnect(w, id, cbs)
  \/ \E w \in WSs : WsDeliver(w)
  \/ \E w \in WSs : WsDisconnect(w)
  \/ \E id \in SyncIds :
       CanRequest /\ PutStory(id, [content |-> "a"])
                  /\ UNCHANGED clientVars

SpecSync == Init /\ [][NextSync]_vars

\* Typing signals between hook clients.
NextTyping ==
  \/ \E h \in Hooks : HookMount(h)
  \/ \E h \in Hooks : HookConnected(h)
  \/ \E h \in Hooks : HookDeliver(h)
  \/ \E h \in Hooks, id \in SyncIds : SubscribeToStory(h, id)
  \/ \E h \in Hooks : TypingEffect(h)
  \/ \E h \in Hooks, id \in SyncIds, isTyping \in BOOLEAN :
       SendTypingIndicator(h, id, isTyping)
  \/ \E h \in Hooks : TypingClear(h)

SpecTyping == Init /\ [][NextTyping]_vars

\* App.js clients editing the main story together.
NextApp ==
  \/ \E a \in Apps : AppMount(a)
  \/ \E a \in Apps : AppConnected(a)
  \/ \E a \in Apps, newStory \in Texts : HandleChange(a, newStory)
  \/ \E a \in Apps : TypingTimeout(a)
  \/ \E a \in Apps : StoryTimeout(a)
  \/ \E a \in Apps : AppDeliver(a)

SpecApp == Init /\ [][NextApp]_vars

\* One App.js client editing and publishing the main story, alone.
Publishers == {"a1"}

NextPublish ==
  \/ \E a \in Publishers : AppMount(a)
  \/ \E a \in Publishers : AppConnected(a)
  \/ \E a \in Publishers, newStory \in Texts : HandleChange(a, newStory)
  \/ \E a \in Publishers : TypingTimeout(a)
  \/ \E a \in Publishers : StoryTimeout(a)
  \/ \E a \in Publishers : AppDeliver(a)
  \/ \E a \in Publishers : HandlePublish(a)
  \/ \E a \in Publishers : HandlePublishAnswered(a)
  \/ Tick

SpecPublish == Init /\ [][NextPublish]_vars

\* The analyst asked to analyse stories, one call after the other.
NextAnalyst ==
  \/ \E story \in AnalystStories : analyzeStory(story)
  \/ CacheAges

SpecAnalyst == Init /\ [][NextAnalyst]_vars

\* The kinds of error the service is told of.
ErrorKinds == {"connection", "subscription"}

\* One WebSocketService, its connection failing and its retry timers firing
\* while the story it follows is updated.
NextRetry ==
  \/ \E w \in WSs, id \in SyncIds, cbs \in CallbackSets : WsConnect(w, id, cbs)
  \/ \E w \in WSs, cbs \in CallbackSets : WsConnectFails(w, cbs)
  \/ \E w \in WSs : WsConnected(w)
  \/ \E w \in WSs, kind \in ErrorKinds : WsError(w, kind)
  \/ \E w \in WSs : WsReconnect(w)
  \/ \E w \in WSs : WsDeliver(w)
  \/ \E w \in WSs : WsDisconnect(w)
  \/ \E id \in SyncIds :
       CanRequest /\ PutStory(id, [content |-> "a"])
                  /\ UNCHANGED clientVars

SpecRetry == Init /\ [][NextRetry]_vars

\* The ids the store routes are requested on: the stored ones but the
\* bystanders, an unknown one, and 'main'.
StoreIds(store) == RequestIds(store) \cup {"main"}

\* Every story and epic route, under any sequence of requests.
NextStore ==
  \/ \E id \in StoreIds(stories) :
       CanRequest /\ GetStory(id) /\ UNCHANGED clientVars
  \/ \E id \in RequestIds(stories) :
       CanRequest /\ GetSubstories(id) /\ UNCHANGED clientVars
  \/ \E body \in PostBodies :
       CanRequest /\ PostStory(body) /\ UNCHANGED clientVars
  \/ \E id \in RequestIds(stories), body \in SplitBodies :
       CanRequest /\ AcceptSplits(id, body) /\ UNCHANGED clientVars
  \/ \E id \in RequestIds(stories), body \in PutBodies :
       CanRequest /\ PutStory(id, body) /\ UNCHANGED clientVars
  \/ \E id \in RequestIds(stories) :
       CanRequest /\ PublishStory(id, EmptyObj) /\ UNCHANGED clientVars
  \/ \E id \in RequestIds(stories) :
       CanRequest /\ DeleteStory(id) /\ UNCHANGED clientVars
  \/ \E id \in RequestIds(epics) :
       CanRequest /\ GetEpic(id) /\ UNCHANGED clientVars
  \/ \E body \in EpicBodies :
       CanRequest /\ PostEpic(body) /\ UNCHANGED clientVars
  \/ \E id \in RequestIds(epics), body \in EpicBodies :
       CanRequest /\ PutEpic(id, body) /\ UNCHANGED clientVars
  \/ \E id \in RequestIds(epics) :
       CanRequest /\ DeleteEpic(id) /\ UNCHANGED clientVars
  \/ Tick

SpecStore == Init /\ [][NextStore]_vars

\* The routes that store a record, under any sequence of requests handled
\* within one millisecond.
NextIds ==
  \/ \E body \in PostBodies :
       CanRequest /\ PostStory(body) /\ UNCHANGED clientVars
  \/ \E id \in RequestIds(stories), body \in SplitBodies :
       CanRequest /\ AcceptSplits(id, body) /\ UNCHANGED clientVars
  \/ \E id \in RequestIds(stories), body \in PutBodies :
       CanRequest /\ PutStory(id, body) /\ UNCHANGED clientVars
  \/ \E body \in EpicBodies :
       CanRequest /\ PostEpic(body) /\ UNCHANGED clientVars
  \/ \E id \in RequestIds(epics), body \in EpicBodies :
       CanRequest /\ PutEpic(id, body) /\ UNCHANGED clientVars

SpecIds == Init /\ [][NextIds]_vars

\* The ids of the records of an array.
Ids(records) == {records[i].id : i \in 1..Len(records)}

\* The client whose mapping board is followed.
BoardUsers == {"a1"}

\* The columns of a board: one per epic, and the one of unassigned stories.
Columns(a) == Ids(app[a].epics) \cup {"unassigned"}

\* Epics created and deleted, on the server and on a client's board.
NextEpics ==
  \/ \E body \in EpicBodies :
       CanRequest /\ PostEpic(body) /\ UNCHANGED clientVars
  \/ \E id \in RequestIds(epics) :
       CanRequest /\ DeleteEpic(id) /\ UNCHANGED clientVars
  \/ \E a \in BoardUsers :
       Len(app[a].epics) < MaxBoard /\ HandleAddEpic(a)
  \/ \E a \in BoardUsers : \E epicId \in Ids(app[a].epics) :
       HandleDeleteEpic(a, epicId)
  \/ \E a \in BoardUsers :
       \E draggedItem \in Range(app[a].stories), targetEpicId \in Columns(a) :
         HandleDrop(a, draggedItem, targetEpicId)

SpecEpics == Init /\ [][NextEpics]_vars

----------------------------------------------------------------------------
\* What the routes are claimed to do.

\* The step is the server handling a request of this route.
Handles(route) == nreq' = nreq + 1 /\ req'.route = route

\* The fields of a stored record the server sets itself.
ServerSetFields == {"id", "version", "lastModified"}

\* After a PUT of `body` that took `old` to `new`, every field the body
\* supplied holds the body's value and every other field its earlier value.
LastWriteWins(old, body, new) ==
  \A f \in (DOMAIN old \cup DOMAIN body \cup DOMAIN new) \ ServerSetFields :
    /\ f \in DOMAIN new
    /\ new[f] = IF f \in DOMAIN body THEN body[f] ELSE old[f]

\* C4: the stores are last-write-wins. Every PUT on an id that is in the
\* store (a story or an epic) is answered 200 whatever version is stored or
\* sent, and leaves in the stored record the value the body gave for each
\* field it supplied and the earlier value for each field it did not (id,
\* version and lastModified apart); so after any sequence of PUTs each field
\* holds what the most recent PUT that supplied it gave.
C4_LastWriteWins ==
  [][ /\ (Handles("PUT /api/stories/:id") /\ req'.id \in DOMAIN stories)
          => /\ resp'.status = 200
             /\ req'.id \in DOMAIN stories'
             /\ LastWriteWins(stories[req'.id], req'.body, stories'[req'.id])
      /\ (Handles("PUT /api/epics/:id") /\ req'.id \in DOMAIN epics)
          => /\ resp'.status = 200
             /\ req'.id \in DOMAIN epics'
             /\ LastWriteWins(epics[req'.id], req'.body, epics'[req'.id])
    ]_vars

\* C4's case: the main story after two PUTs by different clients, the later
\* one carrying a stale version and no content: the content is the first
\* PUT's, the status the second's.
C4_Witness ==
  /\ req.route = "PUT /api/stories/:id"
  /\ req.body = [id |-> "other", version |-> 7, status |-> "in-review"]
  /\ resp.status = 200
  /\ "main-story" \in DOMAIN stories
  /\ stories["main-story"].content = "b"
  /\ stories["main-story"].status = "in-review"
  /\ stories["main-story"].version = 3

\* A trigger of the event 'story-updated'.
IsUpdate(ev) == ev.event = "story-updated"

\* C9: POST /api/agents/:agentType answers by configuration: in mock mode
\* every request gets 200 and the mock response of its agent type (the
\* analyze response for an unknown type), without mock mode and without a key
\* 503, without mock mode and with a key 501; and the route never changes
\* the stores.
C9_AnswersByConfiguration ==
  [][ Handles("POST /api/agents/:agentType") =>
        /\ stories' = stories
        /\ epics' = epics
        /\ (env.USE_MOCK_AI = "true") =>
             /\ resp'.status = 200
             /\ resp'.body =
                  MockResponses(TitleOrDefault(req'.body), now)
                    [IF req'.id \in MockKeys THEN req'.id ELSE "analyze"]
        /\ (env.USE_MOCK_AI # "true" /\ env.CLAUDE_API_KEY = Null) =>
             resp'.status = 503
        /\ (env.USE_MOCK_AI # "true" /\ env.CLAUDE_API_KEY # Null) =>
             resp'.status = 501
    ]_vars

\* C10: broadcasts are re-triggers of REST calls. A story-updated event is
\* triggered only by a successful PUT, after the store was updated, and its
\* changes are the story that PUT stored; a request answered 404 triggers
\* nothing; and the story-updated events of one story carry strictly
\* increasing versions, in the order they were triggered.
C10_RetriggersInVersionOrder ==
  [][ /\ \A i \in 1..Len(triggered') :
           (i > Len(triggered) /\ IsUpdate(triggered'[i])) =>
             /\ Handles("PUT /api/stories/:id")
             /\ resp'.status = 200
             /\ req'.id \in DOMAIN stories'
             /\ triggered'[i].data.storyId = req'.id
             /\ triggered'[i].data.changes = stories'[req'.id]
      /\ (nreq' = nreq + 1 /\ resp'.status = 404) => triggered' = triggered
      /\ \A i, j \in 1..Len(triggered') :
           ( /\ i < j
             /\ IsUpdate(triggered'[i])
             /\ IsUpdate(triggered'[j])
             /\ triggered'[i].data.storyId = triggered'[j].data.storyId )
           => triggered'[i].data.changes.version
                < triggered'[j].data.changes.version
    ]_vars

----------------------------------------------------------------------------
\* What the collaboration layer is claimed to do.

\* The step is client c handling the event at the head of its queue (and not
\* c disconnecting, which drops the queue).
Delivers(c) ==
  /\ inbox[c] # <<>>
  /\ inbox'[c] = Tail(inbox[c])
  /\ IF c \in Hooks THEN hook'[c].mounted ELSE ws'[c].pusher

\* A member is shown in a list of users: an entry carries its channel id or
\* the id of its user.
Shows(users, member) ==
  \E j \in 1..Len(users) : users[j].id \in {member.id, member.info.id}

\* C1: connectedUsers tracks the membership of presence-main. Once a
\* connected hook client has handled every presence event sent to it, every
\* member of the channel appears in its connectedUsers and every entry of
\* connectedUsers is a member of the channel (a member whose
\* pusher:member_removed was handled no longer appears).
C1_ConnectedUsersTrackMembership ==
  \A h \in Hooks :
    (hook[h].isConnected /\ inbox[h] = <<>>) =>
      /\ \A i \in 1..Len(presenceMain) :
           Shows(hook[h].connectedUsers, presenceMain[i])
      /\ \A j \in 1..Len(hook[h].connectedUsers) :
           \E i \in 1..Len(presenceMain) :
             Shows(<<hook[h].connectedUsers[j]>>, presenceMain[i])

\* C2: changes sync automatically. The story-updated event of every
\* successful PUT /api/stories/:id is queued for every client subscribed to
\* that story, through the hook's subscribeToStory(id, cb) or through
\* WebSocketService.connect(id), and when it reaches such a client the
\* client's story-updated callback is called with it.
C2_UpdatesReachSubscribers ==
  [][ /\ (Handles("PUT /api/stories/:id") /\ resp'.status = 200) =>
           LET ev == triggered'[Len(triggered')]
           IN  /\ \A h \in Hooks :
                    HookStoryChannel(req'.id) \in hook[h].storyBound
                      => inbox'[h] = Append(inbox[h], ev)
               /\ \A w \in WSs :
                    ws[w].channel = WsStoryChannel(req'.id)
                      => inbox'[w] = Append(inbox[w], ev)
      /\ \A h \in Hooks :
           ( /\ Delivers(h)
             /\ Head(inbox[h]).event = "story-updated"
             /\ HookStoryChannel(Head(inbox[h]).data.storyId)
                  \in hook[h].storyBound )
           => hook'[h].updates = Append(hook[h].updates, Head(inbox[h]).data)
      /\ \A w \in WSs :
           ( /\ Delivers(w)
             /\ Head(inbox[w]).event = "story-updated"
             /\ "onStoryUpdate" \in ws[w].callbacks )
           => ws'[w].updates = Append(ws[w].updates, Head(inbox[w]).data)
    ]_vars

\* C5: typing indicators show who is working. When the signal of a user
\* typing on a story reaches another hook client that subscribed to that
\* story with subscribeToStory, whenever it subscribed, that client records
\* the user in its typingUsers.
C5_TypingIsRecorded ==
  [][ \A h \in Hooks :
        ( /\ Delivers(h)
          /\ Head(inbox[h]).event = "client-typing"
          /\ Head(inbox[h]).channel \in hook[h].channels
          /\ Head(inbox[h]).data.isTyping
          /\ Head(inbox[h]).data.userId # HookUserId(h) )
        => Head(inbox[h]).data.userId \in hook'[h].typingUsers
    ]_vars

\* An App.js client is at rest: no timer is pending, no request is awaited
\* and no event is on its way to it.
AtRest(a) ==
  /\ app[a].storyTimeout = Null
  /\ ~app[a].typingTimeout
  /\ ~app[a].isPublishing
  /\ inbox[a] = <<>>

\* The story-updated events triggered so far.
UpdatesTriggered == SelectSeq(triggered, IsUpdate)

\* C3: multiple users can edit simultaneously. When the App.js clients are
\* all connected and at rest, and each has been handed every story-updated
\* event that was triggered, their editors show the same text.
C3_EditorsConverge ==
  ( /\ \A a \in Apps : app[a].isConnected /\ AtRest(a)
    /\ \A a \in Apps :
         app[a].updates =
           [i \in 1..Len(UpdatesTriggered) |-> UpdatesTriggered[i].data] )
  => \A a, b \in Apps : app[a].story = app[b].story

\* C6: stories auto-save. When the only client that edits is at rest after
\* typing, the content the server stores for 'main-story' is the text that
\* client typed last.
C6_AutoSaved ==
  \A a \in Publishers :
    ( /\ AtRest(a)
      /\ UpdatesTriggered # <<>>
      /\ ~app[a].isDirty )
    => /\ "main-story" \in DOMAIN stories
       /\ stories["main-story"].content = app[a].story

\* C7: Publish saves a version. When handlePublish succeeds for a client
\* whose editor holds the text T, the stored 'main-story' has the status
\* 'published' and the content T, and T is the client's publishedStory.
C7_PublishSavesVersion ==
  [][ \A a \in Publishers :
        ( /\ app[a].isPublishing
          /\ ~app'[a].isPublishing
          /\ app[a].publishResult = 200 )
        => /\ stories'["main-story"].status = "published"
           /\ stories'["main-story"].content = app[a].story
           /\ app'[a].publishedStory = app[a].story
    ]_vars

\* The part of a result the analysis of a story determines.
Scores(result) ==
  [investScore |->
     [c \in DOMAIN result.investScore |-> result.investScore[c].score],
   sizeAssessment |-> result.sizeAssessment,
   qualityIssues |-> result.qualityIssues,
   overallScore |-> result.overallScore,
   readinessLevel |-> result.readinessLevel]

SameContent(s1, s2) ==
  /\ Text(s1, "title") = Text(s2, "title")
  /\ Text(s1, "description") = Text(s2, "description")
  /\ Criteria(s1) = Criteria(s2)

\* C8: the analysis is deterministic. Two calls of analyzeStory with
\* stories of the same title, description and acceptance criteria return
\* the same INVEST scores, size assessment, quality issues, overall score
\* and readiness level, whatever was analysed before.
C8_AnalysisIsDeterministic ==
  \A i, j \in 1..Len(analyst.calls) :
    SameContent(analyst.calls[i].story, analyst.calls[j].story)
      => Scores(analyst.calls[i].result) = Scores(analyst.calls[j].result)

\* The stories that refer to an epic, in the server's store and on a board.
StoredUnder(store, epicId) ==
  {k \in DOMAIN store :
     "epicId" \in DOMAIN store[k] /\ store[k].epicId = epicId}

\* C11: after an epic is deleted no story still refers to it. Whenever a
\* step removes an epic, from the server's store (DELETE /api/epics/:id) or
\* from a client's board (handleDeleteEpic), no story of that store or
\* board has the removed epic's id as its epicId afterwards.
C11_DeletedEpicLeavesNoStory ==
  [][ /\ \A id \in DOMAIN epics \ DOMAIN epics' :
           StoredUnder(stories', id) = {}
      /\ \A a \in Apps :
           \A id \in Ids(app[a].epics) \ Ids(app'[a].epics) :
             StoredUnder(app'[a].stories, id) = {}
    ]_vars

\* C12: the service reconnects after an error. Whenever a retry timer fires
\* and reconnect() runs, the service is afterwards subscribed to the same
\* presence-story-<id> channel as before, with the callbacks that were
\* passed to connect().
C12_ReconnectResubscribes ==
  [][ \A w \in WSs :
        WsReconnect(w) =>
          /\ ws'[w].pusher
          /\ ws'[w].channel = ws[w].channel
          /\ ws'[w].callbacks = ws[w].callbacks
    ]_vars

\* C13: the service gives up after maxRetries. In every state retryCount is
\* between 0 and maxRetries and at most one timer is pending; and an error
\* that arrives when maxRetries errors have occurred since the last
\* 'connected', reconnect or disconnect schedules no timer, leaves
\* retryCount alone and calls onError, if the caller gave one, with
\* 'Connection failed after maximum retries'.
C13_GivesUpAfterMaxRetries ==
  [][ \A w \in WSs :
        /\ ws'[w].retryCount \in 0..maxRetries
        /\ Cardinality(ws'[w].timers) <= 1
        /\ ( /\ ws[w].streak >= maxRetries
              /\ \/ \E kind \in ErrorKinds : WsError(w, kind)
                 \/ \E cbs \in CallbackSets : WsConnectFails(w, cbs) ) =>
               /\ ws'[w].timers = ws[w].timers
               /\ ws'[w].reconnectTimeout = ws[w].reconnectTimeout
               /\ ws'[w].retryCount = ws[w].retryCount
               /\ "onError" \in ws'[w].callbacks =>
                    ws'[w].errors =
                      Append(ws[w].errors,
                             "Connection failed after maximum retries")
    ]_vars

\* An error arrived after the retries were used up and onError was called.
C13_Witness ==
  \E w \in WSs :
    /\ ws[w].errors # <<>>
    /\ ws[w].retryCount = maxRetries
    /\ ws[w].streak > maxRetries

\* The step is the server answering a request of this route with this status.
Answers(route, status) == Handles(route) /\ resp'.status = status

\* C14: a story's version counts its successful updates. A story is created
\* with version 1 by POST /api/stories and by accept-splits, whatever the
\* body says; a successful PUT raises the stored version by exactly 1,
\* whatever version the body carries; no other request changes the version
\* of a story; and so the version of a stored story never decreases.
C14_VersionCountsUpdates ==
  [][ /\ Answers("POST /api/stories", 201) => stories'[req'.id].version = 1
      /\ Answers("POST /api/stories/:id/accept-splits", 201) =>
           \A i \in 1..Len(resp'.body.subStories) :
             resp'.body.subStories[i].version = 1
      /\ Answers("PUT /api/stories/:id", 200) =>
           stories'[req'.id].version = stories[req'.id].version + 1
      /\ \A k \in DOMAIN stories \cap DOMAIN stories' :
           /\ stories'[k].version >= stories[k].version
           /\ stories'[k].version # stories[k].version =>
                (Answers("PUT /api/stories/:id", 200) /\ req'.id = k)
    ]_vars

\* C15: POST /api/stories always creates a new story. After a successful
\* POST the store holds exactly one more story than before, and every story
\* that was stored before is stored unchanged.
C15_PostCreatesNewStory ==
  [][ Answers("POST /api/stories", 201) =>
        /\ Cardinality(DOMAIN stories') = Cardinality(DOMAIN stories) + 1
        /\ \A k \in DOMAIN stories :
             k \in DOMAIN stories' /\ stories'[k] = stories[k]
    ]_vars

\* C16: accept-splits is all-or-nothing. A request to accept-splits that is
\* not answered 201 adds no story to the store and leaves the parent, and
\* every other story, as it was.
C16_AcceptSplitsAllOrNothing ==
  [][ ( /\ Handles("POST /api/stories/:id/accept-splits")
        /\ resp'.status # 201 )
      => stories' = stories
    ]_vars

\* C17: the hierarchy stays well-formed. In every state each stored story's
\* parentStoryId is null or the id of a stored story.
C17_ParentsExist ==
  \A k \in DOMAIN stories :
    stories[k].parentStoryId \in DOMAIN stories \cup {Null}

\* The step is answered 404 and leaves the stores and the events alone.
NotFound ==
  /\ resp'.status = 404
  /\ stories' = stories
  /\ epics' = epics
  /\ triggered' = triggered

\* C18: a request on an id that is not in the store is answered 404, leaves
\* both stores as they were and triggers no event, for each route that takes
\* an id; and after a DELETE answered 204 the id is not in the store.
C18_UnknownIdIsNotFound ==
  [][ /\ \A id \in StoreIds(stories) \ DOMAIN stories :
           /\ GetStory(id) => NotFound
           /\ GetSubstories(id) => NotFound
           /\ DeleteStory(id) => NotFound
           /\ PublishStory(id, EmptyObj) => NotFound
           /\ \A body \in PutBodies : PutStory(id, body) => NotFound
           /\ \A body \in SplitBodies : AcceptSplits(id, body) => NotFound
      /\ \A id \in StoreIds(epics) \ DOMAIN epics :
           /\ GetEpic(id) => NotFound
           /\ DeleteEpic(id) => NotFound
           /\ \A body \in EpicBodies : PutEpic(id, body) => NotFound
      /\ Answers("DELETE /api/stories/:id", 204) =>
           req'.id \notin DOMAIN stories'
      /\ Answers("DELETE /api/epics/:id", 204) =>
           req'.id \notin DOMAIN epics'
    ]_vars

\* C20: a successful accept-splits on P with n splits adds n new stories to
\* the store, each with parentStoryId P, P's epicId, status 'draft' and
\* createdFrom 'ai-split'; it sets hasSplits on P and changes no other field
\* of P but lastModified; and the sub-stories of P are then the n new ones
\* together with those P had.
C20_AcceptSplitsAddsSubStories ==
  [][ Answers("POST /api/stories/:id/accept-splits", 201) =>
        LET P == req'.id
            subStories == resp'.body.subStories
            n == Len(req'.body.splits)
        IN  /\ Len(subStories) = n
            /\ Cardinality(DOMAIN stories' \ DOMAIN stories) = n
            /\ \A i \in 1..n :
                 /\ subStories[i].id \in DOMAIN stories' \ DOMAIN stories
                 /\ stories'[subStories[i].id] = subStories[i]
                 /\ subStories[i].parentStoryId = P
                 /\ subStories[i].epicId = FieldOr(stories[P], "epicId", Null)
                 /\ subStories[i].status = "draft"
                 /\ subStories[i].createdFrom = "ai-split"
            /\ stories'[P] =
                 Merge(stories[P],
                       [hasSplits |-> TRUE,
                        lastModified |-> stories'[P].lastModified])
            /\ SubStories(stories', P) =
                 SubStories(stories, P) \cup Range(subStories)
    ]_vars

\* C19: a stored record's id equals its key. In every state, each key of
\* the stories map holds a story with that id and each key of the epics map
\* holds an epic with that id, whatever id the bodies of the PUTs and POSTs
\* handled carried.
C19_IdIsKey ==
  /\ \A k \in DOMAIN stories : stories[k].id = k
  /\ \A k \in DOMAIN epics : epics[k].id = k

\* A PUT whose body carries another id than the path's was answered 200.
C19_Witness ==
  /\ req.route = "PUT /api/stories/:id"
  /\ resp.status = 200
  /\ "id" \in DOMAIN req.body
  /\ req.body.id # req.id
  /\ req.id \in DOMAIN stories
====
